---- MODULE Spec2Model ----
(***************************************************************************)
(* immich-stray-finder: the directory-aware matcher (package matcher), the *)
(* catalog fetch (package immich), the scanner, the mover (MoveOrphans     *)
(* entry by entry, moveFile call by call) and the pipeline of run (package *)
(* main) with the cancellation of its context.                             *)
(*                                                                         *)
(* Strings are TLA+ strings; Len, SubSeq and \o act on them character by   *)
(* character, so every parsing step of the Go code (SplitN, path.Base, the *)
(* 36-byte slice, the anchored UUID regular expression) is computed on the *)
(* characters of the path, as the code computes it.                        *)
(*                                                                         *)
(* A Go function that can panic (an out-of-range slice or index) returns   *)
(* here a record with a panic flag, so that "never faults" is a property   *)
(* the guards of the code decide, not one the model assumes.               *)
(*                                                                         *)
(* Each part of the program has its own specification; the variables of    *)
(* the parts a specification does not run keep their idle values.          *)
(***************************************************************************)
EXTENDS Integers, Sequences, FiniteSets, TLC

VARIABLES
    \* FindUntracked
    diskFiles,   \* FindUntracked's argument: the scanned relative paths
    mctx,        \* *MatchContext: AssetPaths, AssetIDs, UserIDs
    pc,          \* position in FindUntracked: "loop", "returned", "panicked"
    idx,         \* 1-based position of the range loop over diskFiles
    untracked,   \* the result slice being built (RelPath of each element)
    \* FetchAllAssets, FetchAllAssetsFromDB
    fpc,         \* position in the fetch: "idle", "loop", "rows", "returned"
    page,        \* page of fetchAssetsPage, the number of the next request
    result,      \* *AllAssetsResult: AssetPaths, AssetIDs, UserIDs
    items,       \* searchResp.Assets.Items of the page just decoded (the
                 \* one row just scanned, in FetchAllAssetsFromDB)
    rowCount,    \* rows that rows.Next() has delivered
    cancelled,   \* ctx.Err() != nil
    fetchErr,    \* the error the fetch returns, "nil" for none
    seen,        \* history: the records the server has delivered so far
    ret,         \* the *AllAssetsResult that the fetch returns
    server,      \* the pages of the server, when the specification fixes them
    requests,    \* history: the pages requested of that server, in order
    \* FindUntracked run on the shards of one list
    cuts,        \* cuts[w]: the shard w is diskFiles[cuts[w-1]:cuts[w]]
    shardPc,     \* shardPc[w]: position of the call on shard w
    shardIdx,    \* shardIdx[w]: 1-based position of its range loop
    shardOut,    \* shardOut[w]: its result slice
    \* run
    rpc,         \* position in run
    dbURL,       \* --db-url
    doMove,      \* --move
    usersResp,   \* the answer to GET /api/admin/users
    usersErr,    \* err of client.FetchAllUsers, "nil" for none
    adminMode,   \* adminMode
    allUserIDs,  \* allUserIDs
    user,        \* user of client.FetchCurrentUser
    runErr,      \* the error run returns, "nil" for none
    calls,       \* history: the calls run has made, in order
    \* MoveOrphans
    relPaths,    \* MoveOrphans' argument
    dryRun,      \* MoveOrphans' argument
    mvIdx,       \* 1-based position of the range loop over relPaths
    mvPc,        \* position in MoveOrphans: "idle", "loop", "returned"
    moveErr,     \* the error MoveOrphans returns, "nil" for none
    libFiles,    \* the files under libraryPath, as relative paths
    targetFiles, \* the files under targetDir: relative path and content
    targetDirs,  \* the directories under targetDir
    \* moveFile, copyFile
    mfPc,        \* position in moveFile and copyFile
    srcFile,     \* the file at src: whether it exists, and its bytes
    dstFile,     \* the file at dst: whether it exists, and its bytes
    mfErr,       \* the error moveFile returns, "nil" for none
    srcWas       \* history: the file at src when moveFile was called

matcherVars == <<diskFiles, mctx, pc, idx, untracked>>
fetchVars ==
    <<fpc, page, result, items, rowCount, cancelled, fetchErr, seen, ret, server, requests>>

shardVars == <<cuts, shardPc, shardIdx, shardOut>>

runVars ==
    <<rpc, dbURL, doMove, usersResp, usersErr, adminMode, allUserIDs, user, runErr, calls>>
moveFileVars == <<mfPc, srcFile, dstFile, mfErr, srcWas>>
moverVars ==
    <<relPaths, dryRun, mvIdx, mvPc, moveErr, libFiles, targetFiles, targetDirs,
      moveFileVars>>

vars == <<matcherVars, fetchVars, shardVars, runVars, moverVars>>

\* what FindUntracked never touches
notMatcher == <<fetchVars, shardVars, runVars, moverVars>>

\* what the fetch never touches
notFetch == <<matcherVars, shardVars, runVars, moverVars>>

\* what MoveOrphans never touches
notMover == <<matcherVars, fetchVars, shardVars, runVars>>

(***************************************************************************)
(* Characters and strings                                                  *)
(***************************************************************************)
Char(s, i) == SubSeq(s, i, i)

\* [0-9a-fA-F] of uuidRegex
HexDigits ==
    {"0", "1", "2", "3", "4", "5", "6", "7", "8", "9",
     "a", "b", "c", "d", "e", "f", "A", "B", "C", "D", "E", "F"}

\* the length of a UUID, the 36 of extractUUID
UUIDLen == 36

\* the positions of the four hyphens of the 8-4-4-4-12 pattern
HyphenAt == {9, 14, 19, 24}

\* strings.Index(s, "/") + 1: the position of the first slash, 0 when none
IndexSlash(s) ==
    IF \E i \in 1..Len(s) : Char(s, i) = "/"
    THEN CHOOSE i \in 1..Len(s) :
            /\ Char(s, i) = "/"
            /\ \A j \in 1..(i - 1) : Char(s, j) # "/"
    ELSE 0

\* the position of the last slash, 0 when none (lastSlash of package path)
LastSlash(s) ==
    IF \E i \in 1..Len(s) : Char(s, i) = "/"
    THEN CHOOSE i \in 1..Len(s) :
            /\ Char(s, i) = "/"
            /\ \A j \in (i + 1)..Len(s) : Char(s, j) # "/"
    ELSE 0

\* strings.SplitN(s, "/", n) for n >= 1: at most n substrings, the last one
\* the unsplit remainder; a string without a slash (the empty one too) gives
\* the one-element slice holding it.
RECURSIVE SplitN(_, _)
SplitN(s, n) ==
    IF n <= 1 \/ IndexSlash(s) = 0
    THEN <<s>>
    ELSE <<SubSeq(s, 1, IndexSlash(s) - 1)>>
            \o SplitN(SubSeq(s, IndexSlash(s) + 1, Len(s)), n - 1)

\* the string without its trailing slashes
RECURSIVE StripTrailingSlashes(_)
StripTrailingSlashes(p) ==
    IF Len(p) > 0 /\ Char(p, Len(p)) = "/"
    THEN StripTrailingSlashes(SubSeq(p, 1, Len(p) - 1))
    ELSE p

\* path.Base: "." for the empty path, "/" for a path of slashes only,
\* otherwise the last element after the trailing slashes are stripped.
Base(p) ==
    IF p = "" THEN "."
    ELSE LET q == StripTrailingSlashes(p)
             r == SubSeq(q, LastSlash(q) + 1, Len(q))
         IN  IF r = "" THEN "/" ELSE r

(***************************************************************************)
(* Results of Go calls that may panic                                      *)
(***************************************************************************)
Ret(b) == [panic |-> FALSE, ok |-> b]
Panic == [panic |-> TRUE, ok |-> FALSE]
Str(s) == [panic |-> FALSE, val |-> s]
StrPanic == [panic |-> TRUE, val |-> ""]

\* s[:hi]: panics when hi exceeds len(s)
SliceTo(s, hi) == IF hi > Len(s) THEN StrPanic ELSE Str(SubSeq(s, 1, hi))

\* parts[i] (i counted from 0 as in the code): panics when i >= len(parts)
At(parts, i) == IF i >= Len(parts) THEN StrPanic ELSE Str(parts[i + 1])

(***************************************************************************)
(* package matcher                                                         *)
(***************************************************************************)

\* a validity test that looks at the hyphens only
isValidUUID_HyphensOnly(s) ==
    /\ Len(s) = UUIDLen
    /\ \A i \in HyphenAt : Char(s, i) = "-"

\* uuidRegex.MatchString(s): ^hex{8}-hex{4}-hex{4}-hex{4}-hex{12}$
isValidUUID(s) ==
    /\ Len(s) = UUIDLen
    /\ \A i \in 1..UUIDLen :
          IF i \in HyphenAt THEN Char(s, i) = "-" ELSE Char(s, i) \in HexDigits

\* extractUUID asking for more than the 36 characters
extractUUID_LongerOnly(s) ==
    IF Len(s) <= UUIDLen THEN Str("")
    ELSE LET candidate == SliceTo(s, UUIDLen)
         IN  IF candidate.panic THEN StrPanic
             ELSE IF isValidUUID(candidate.val) THEN candidate
             ELSE Str("")

\* extractUUID without its length check
extractUUID_NoLenCheck(s) ==
    LET candidate == SliceTo(s, UUIDLen)
    IN  IF candidate.panic THEN StrPanic
        ELSE IF isValidUUID(candidate.val) THEN candidate
        ELSE Str("")

extractUUID(s) ==
    IF Len(s) < UUIDLen THEN Str("")
    ELSE LET candidate == SliceTo(s, UUIDLen)
         IN  IF candidate.panic THEN StrPanic
             ELSE IF isValidUUID(candidate.val) THEN candidate
             ELSE Str("")

\* strings.ToLower on the letters
UpperLetters == "ABCDEFGHIJKLMNOPQRSTUVWXYZ"
LowerLetters == "abcdefghijklmnopqrstuvwxyz"
LowerMap ==
    [c \in {Char(UpperLetters, i) : i \in 1..Len(UpperLetters)} |->
        Char(LowerLetters, CHOOSE i \in 1..Len(UpperLetters) : Char(UpperLetters, i) = c)]
LowerChar(c) == IF c \in DOMAIN LowerMap THEN LowerMap[c] ELSE c
RECURSIVE Lower(_)
Lower(s) == IF s = "" THEN "" ELSE LowerChar(Head(s)) \o Lower(Tail(s))

\* a lookup that folds the letter case of both sides
LookupFold(key, set) == \E c \in set : Lower(c) = Lower(key)

\* _, ok := set[key]: the lookup of a Go map keyed by string is exact
Lookup(key, set) == key \in set

\* matchByAssetID taking the whole filename for the identifier
matchByAssetID_WholeName(relPath, assetIDs) ==
    LET filename == Base(relPath)
    IN  IF ~isValidUUID(filename) THEN Ret(FALSE)
        ELSE Ret(Lookup(filename, assetIDs))

\* matchByAssetID accepting every well-formed identifier
matchByAssetID_NoLookup(relPath, assetIDs) ==
    LET filename == Base(relPath)
        uuid == extractUUID(filename)
    IN  IF uuid.panic THEN Panic
        ELSE Ret(uuid.val # "")

matchByAssetID(relPath, assetIDs) ==
    LET filename == Base(relPath)
        uuid == extractUUID(filename)
    IN  IF uuid.panic THEN Panic
        ELSE IF uuid.val = "" THEN Ret(FALSE)
        ELSE Ret(Lookup(uuid.val, assetIDs))

\* matchByUserID without its check of len(parts)
matchByUserID_NoLenCheck(relPath, userIDs) ==
    LET parts == SplitN(relPath, 3)
        userID == At(parts, 1)
    IN  IF userID.panic THEN Panic
        ELSE IF ~isValidUUID(userID.val) THEN Ret(FALSE)
        ELSE Ret(Lookup(userID.val, userIDs))

\* matchByUserID taking the identifier at the start of the 2nd segment
matchByUserID_Prefix(relPath, userIDs) ==
    LET parts == SplitN(relPath, 3)
    IN  IF Len(parts) < 2 THEN Ret(FALSE)
        ELSE LET userID == extractUUID(parts[2])
             IN  IF userID.panic THEN Panic
                 ELSE IF userID.val = "" THEN Ret(FALSE)
                 ELSE Ret(Lookup(userID.val, userIDs))

matchByUserID(relPath, userIDs) ==
    LET parts == SplitN(relPath, 3)
    IN  IF Len(parts) < 2 THEN Ret(FALSE)
        ELSE LET userID == At(parts, 1)
             IN  IF userID.panic THEN Panic
                 ELSE IF ~isValidUUID(userID.val) THEN Ret(FALSE)
                 ELSE Ret(Lookup(userID.val, userIDs))

\* a path match that ignores the letter case
matchByPath_Fold(relPath, assetPaths) == Ret(LookupFold(relPath, assetPaths))

\* the exact path match of the "library", "upload" case
matchByPath(relPath, assetPaths) == Ret(Lookup(relPath, assetPaths))

isKnown(relPath, m) ==
    LET topDir == At(SplitN(relPath, 2), 0)
    IN  IF topDir.panic THEN Panic
        ELSE CASE topDir.val \in {"library", "upload"} ->
                    matchByPath(relPath, m.AssetPaths)
               [] topDir.val \in {"thumbs", "encoded-video"} ->
                    matchByAssetID(relPath, m.AssetIDs)
               [] topDir.val = "profile" ->
                    matchByUserID(relPath, m.UserIDs)
               [] topDir.val = ".immich" -> Ret(TRUE)
               [] OTHER -> Ret(FALSE)

\* an append that skips a path already in the list
AppendUnlessPresent(list, relPath) ==
    IF \E j \in 1..Len(list) : list[j] = relPath THEN list ELSE Append(list, relPath)

\* an append that skips a path equal to the last one of the list
AppendUnlessLast(list, relPath) ==
    IF list # <<>> /\ list[Len(list)] = relPath THEN list ELSE Append(list, relPath)

\* untracked = append(untracked, UntrackedFile{RelPath: relPath})
AppendUntracked(list, relPath) == Append(list, relPath)

(***************************************************************************)
(* The inputs                                                              *)
(***************************************************************************)
Id1 == "aaaaaaaa-1111-2222-3333-444444444444"
Id1Upper == "AAAAAAAA-1111-2222-3333-444444444444"
Id2 == "cccccccc-1111-2222-3333-444444444444"
\* hyphens in place, one character that is no hexadecimal digit
IdNotHex == "aaaaaaaa-1111-2222-3333-44444444444g"

\* top-level segments: the five designated directories, the marker name, a
\* directory the matcher does not know, a case variant, and the empty one
Tops ==
    {"library", "upload", "thumbs", "encoded-video", "profile",
     ".immich", "foo", "Library", ""}

\* what follows the top-level segment and its slash
Rests ==
    {"p.jpg", "P.jpg", ".immich", "sub/.immich", "sub/",
     Id1, Id1 \o "/p.jpg", Id1Upper \o "/p.jpg", Id2 \o "/p.jpg",
     Id1 \o "x/p.jpg", IdNotHex \o "/p.jpg", Id1 \o "/",
     "u/" \o Id1 \o "-t.webp", "u/" \o Id1Upper \o ".mp4",
     "u/" \o Id2 \o ".mp4", "u/" \o IdNotHex \o ".mp4",
     "u/x" \o Id1 \o ".mp4", "u/v/" \o Id1, "u/" \o SubSeq(Id1, 1, 35),
     "u/" \o Id1 \o "/p.jpg", "u/" \o Id2 \o "/" \o Id1 \o ".mp4"}

\* every entry of the model: a single segment, or a top and a rest
Entries == Tops \cup {t \o "/" \o r : t \in Tops, r \in Rests}

\* the entries of the lists longer than one
MixEntries == {"library/p.jpg", "foo/p.jpg", "thumbs/u/" \o Id1 \o "-t.webp"}

\* the longest list of MixEntries
MaxFiles == 3

BoundedSeq(S, n) == UNION {[1..k -> S] : k \in 0..n}

\* FindUntracked's inputs: every one-entry list, and the lists of up to
\* MaxFiles mixed entries (with repetitions)
InputLists == {<<e>> : e \in Entries} \cup BoundedSeq(MixEntries, MaxFiles)

\* originalPath values of the catalog, prefix-stripped
PathUniverse == {"library/p.jpg", "upload/P.jpg"}

\* the path sets: what the catalog may hold, or every entry there is
PathSets == (SUBSET PathUniverse) \cup {Entries}

\* the identifiers the catalog may hold (Id2 is in no catalog)
IdUniverse == {Id1, Id1Upper}

MatchContexts ==
    [AssetPaths : PathSets, AssetIDs : SUBSET IdUniverse, UserIDs : SUBSET IdUniverse]

(***************************************************************************)
(* The catalog fetch (package immich): FetchAllAssets pages through        *)
(* POST /api/search/metadata, FetchAllAssetsFromDB reads the rows of one   *)
(* query; both fold every record into the three sets of the result.        *)
(***************************************************************************)

\* &AllAssetsResult{...}: three empty maps
EmptyResult == [AssetPaths |-> {}, AssetIDs |-> {}, UserIDs |-> {}]

\* a merge that takes nothing from a record without a path
MergeAsset_PathRequired(res, asset) ==
    IF asset.OriginalPath = "" THEN res
    ELSE [AssetPaths |-> res.AssetPaths \cup {asset.OriginalPath},
          AssetIDs   |-> IF asset.ID # "" THEN res.AssetIDs \cup {asset.ID}
                         ELSE res.AssetIDs,
          UserIDs    |-> IF asset.OwnerID # "" THEN res.UserIDs \cup {asset.OwnerID}
                         ELSE res.UserIDs]

\* a merge that keeps one owner for an identifier met again
MergeAsset_LastOwnerWins(res, asset) ==
    [AssetPaths |-> IF asset.OriginalPath # ""
                    THEN res.AssetPaths \cup {asset.OriginalPath}
                    ELSE res.AssetPaths,
     AssetIDs   |-> IF asset.ID # "" THEN res.AssetIDs \cup {asset.ID}
                    ELSE res.AssetIDs,
     UserIDs    |-> IF asset.OwnerID = "" THEN res.UserIDs
                    ELSE IF asset.ID \in res.AssetIDs THEN {asset.OwnerID}
                    ELSE res.UserIDs \cup {asset.OwnerID}]

\* a merge that skips a record whose identifier is already in the set
MergeAsset_SkipKnownID(res, asset) ==
    IF asset.ID \in res.AssetIDs THEN res
    ELSE [AssetPaths |-> IF asset.OriginalPath # ""
                         THEN res.AssetPaths \cup {asset.OriginalPath}
                         ELSE res.AssetPaths,
          AssetIDs   |-> IF asset.ID # "" THEN res.AssetIDs \cup {asset.ID}
                         ELSE res.AssetIDs,
          UserIDs    |-> IF asset.OwnerID # "" THEN res.UserIDs \cup {asset.OwnerID}
                         ELSE res.UserIDs]

\* the three "if field != "" { set[field] = struct{}{} }" of one record
MergeAsset(res, asset) ==
    [AssetPaths |-> IF asset.OriginalPath # ""
                    THEN res.AssetPaths \cup {asset.OriginalPath}
                    ELSE res.AssetPaths,
     AssetIDs   |-> IF asset.ID # "" THEN res.AssetIDs \cup {asset.ID}
                    ELSE res.AssetIDs,
     UserIDs    |-> IF asset.OwnerID # "" THEN res.UserIDs \cup {asset.OwnerID}
                    ELSE res.UserIDs]

\* "for _, asset := range searchResp.Assets.Items"
RECURSIVE MergeItems(_, _)
MergeItems(res, batch) ==
    IF batch = <<>> THEN res
    ELSE MergeItems(MergeAsset(res, Head(batch)), Tail(batch))

\* the decimal digits; strconv.Itoa and strconv.Atoi on the page numbers of
\* the model, which have one digit
Digits == "0123456789"
Itoa(n) == Char(Digits, n + 1)
Atoi(s) ==
    IF \E d \in 1..9 : Itoa(d) = s
    THEN [err |-> FALSE, val |-> CHOOSE d \in 1..9 : Itoa(d) = s]
    ELSE [err |-> TRUE, val |-> 0]

\* owners of assets
User1 == "bbbbbbbb-1111-2222-3333-444444444444"
User2 == "dddddddd-1111-2222-3333-444444444444"
\* a second asset of the catalog
Id3 == "eeeeeeee-1111-2222-3333-444444444444"

\* the records a server or a row may deliver: an asset, the same identifier
\* with another owner and another path, a record without a path, and a
\* record with three empty fields
Assets ==
    {[ID |-> Id1, OwnerID |-> User1, OriginalPath |-> "/data/library/admin/p.jpg"],
     [ID |-> Id1, OwnerID |-> User2, OriginalPath |-> "/data/upload/u/q.jpg"],
     [ID |-> Id3, OwnerID |-> User2, OriginalPath |-> ""],
     [ID |-> "", OwnerID |-> "", OriginalPath |-> ""]}

\* the longest list of items in one page
MaxItems == 2

ItemLists == BoundedSeq(Assets, MaxItems)

\* the most rows the query delivers
MaxRows == 2

\* the items of a decoded page; no page decoded in this iteration
Decoded(batch) == [decoded |-> TRUE, list |-> batch]
NoItems == [decoded |-> FALSE, list |-> <<>>]

\* *string of SearchAssets.NextPage: nil, a page number, or no number
NoNextPage == "nil"
NextPages == {NoNextPage, "1", "2", "3", "x"}

\* what one POST /api/search/metadata can end in
Responses ==
    [kind : {"transport", "readBody", "status", "badJSON"},
     batch : {<<>>}, count : {0}, nextPage : {NoNextPage}]
    \cup
    {r \in [kind : {"ok"}, batch : ItemLists, count : 0..MaxItems,
            nextPage : NextPages] : r.count \in {0, Len(r.batch)}}

\* the records of a batch, as a set
Records(batch) == {batch[i] : i \in 1..Len(batch)}

\* "return nil, err" and "return result, nil" of FetchAllAssets and of
\* FetchAllAssetsFromDB
NilResult == [nil |-> TRUE, val |-> EmptyResult]
Returned_Partial(err, res) == [nil |-> FALSE, val |-> res]
Returned(err, res) ==
    IF err = "nil" THEN [nil |-> FALSE, val |-> res] ELSE NilResult

\* no server fixed: a request can end in any response
NoServer == <<>>

\* a page after which fetchAssetsPage stops before any other
LastPage_Always(resp) == TRUE

\* "if searchResp.Assets.NextPage == nil || searchResp.Assets.Count == 0"
LastPage(resp) == resp.nextPage = NoNextPage \/ resp.count = 0

\* the answer to the request of page p
Answers(p) ==
    IF server = NoServer THEN Responses
    ELSE IF p \in DOMAIN server THEN {server[p]}
    ELSE {[kind |-> "status", batch |-> <<>>, count |-> 0, nextPage |-> NoNextPage]}

\* result := &AllAssetsResult{...}; fetchAssetsPage starts at page := 1
FetchAllAssets ==
    /\ fpc = "idle"
    /\ fpc' = "loop"
    /\ page' = 1
    /\ result' = EmptyResult
    /\ UNCHANGED <<items, rowCount, cancelled, fetchErr, seen, ret, server, requests>>
    /\ UNCHANGED notFetch

\* a return of fetchAssetsPage, and with it of FetchAllAssets (a return of
\* FetchAllAssetsFromDB)
FetchReturns(err, res, batch) ==
    /\ fpc' = "returned"
    /\ fetchErr' = err
    /\ result' = res
    /\ items' = batch
    /\ seen' = seen \cup Records(batch.list)
    /\ ret' = Returned(err, res)
    /\ UNCHANGED <<page, rowCount, cancelled, server>>
    /\ UNCHANGED notFetch

\* one iteration of the "for" of fetchAssetsPage
FetchPage ==
    /\ fpc = "loop"
    /\ requests' = IF cancelled \/ server = NoServer THEN requests
                    ELSE Append(requests, page)
    /\ IF cancelled
       THEN FetchReturns("ctx", result, NoItems)
       ELSE \E resp \in Answers(page) :
              IF resp.kind # "ok"
              THEN FetchReturns(resp.kind, result, NoItems)
              ELSE LET merged == MergeItems(result, resp.batch)
                       next == Atoi(resp.nextPage)
                   IN  IF LastPage(resp)
                       THEN FetchReturns("nil", merged, Decoded(resp.batch))
                       ELSE IF next.err
                       THEN FetchReturns("atoi", merged, Decoded(resp.batch))
                       ELSE /\ page' = next.val
                            /\ result' = merged
                            /\ items' = Decoded(resp.batch)
                            /\ seen' = seen \cup Records(resp.batch)
                            /\ UNCHANGED <<fpc, rowCount, cancelled, fetchErr, ret, server>>
                            /\ UNCHANGED notFetch

\* pgx.Connect, conn.Query and the empty result of FetchAllAssetsFromDB
FetchAllAssetsFromDB ==
    /\ fpc = "idle"
    /\ \E outcome \in {"connect", "query", "ok"} :
         IF outcome = "ok"
         THEN /\ fpc' = "rows"
              /\ result' = EmptyResult
              /\ rowCount' = 0
              /\ UNCHANGED <<page, items, cancelled, fetchErr, seen, ret, server, requests>>
              /\ UNCHANGED notFetch
         ELSE FetchReturns(outcome, result, NoItems) /\ UNCHANGED requests

\* one turn of "for rows.Next()", or the end of the rows
FetchRow ==
    /\ fpc = "rows"
    /\ \/ /\ rowCount < MaxRows
          /\ \E a \in Assets :
               /\ result' = MergeAsset(result, a)
               /\ items' = Decoded(<<a>>)
               /\ rowCount' = rowCount + 1
               /\ seen' = seen \cup {a}
               /\ UNCHANGED <<fpc, page, cancelled, fetchErr, ret, server, requests>>
               /\ UNCHANGED notFetch
       \/ /\ rowCount < MaxRows
          /\ fpc' = "returned"
          /\ fetchErr' = "scan"
          /\ items' = NoItems
          /\ rowCount' = rowCount + 1
          /\ ret' = Returned("scan", result)
          /\ UNCHANGED <<page, result, cancelled, seen, server, requests>>
          /\ UNCHANGED notFetch
       \/ \E err \in {"nil", "rows"} :
            FetchReturns(err, result, NoItems) /\ UNCHANGED requests

\* the signal handler of main cancels ctx, until run has returned
Cancel ==
    /\ ~cancelled
    /\ fpc \in {"idle", "loop", "rows"}
    /\ rpc # "returned"
    /\ cancelled' = TRUE
    /\ UNCHANGED <<fpc, page, result, items, rowCount, fetchErr, seen, ret, server, requests>>
    /\ UNCHANGED notFetch

\* the values of the variables of a part that is not running
NoUser == [ID |-> "", StorageLabel |-> ""]
NoResponse == [kind |-> "none", status |-> 0, decodable |-> FALSE, users |-> <<>>]
NoFile == [exists |-> FALSE, data |-> ""]

RunIdle ==
    /\ rpc = "idle"
    /\ dbURL = ""
    /\ doMove = FALSE
    /\ usersResp = NoResponse
    /\ usersErr = "nil"
    /\ adminMode = FALSE
    /\ allUserIDs = {}
    /\ user = NoUser
    /\ runErr = "nil"
    /\ calls = <<>>

MoveFileIdle ==
    /\ mfPc = "idle"
    /\ srcFile = NoFile
    /\ dstFile = NoFile
    /\ mfErr = "nil"
    /\ srcWas = NoFile

MoverIdle ==
    /\ relPaths = <<>>
    /\ dryRun = TRUE
    /\ mvIdx = 1
    /\ mvPc = "idle"
    /\ moveErr = "nil"
    /\ libFiles = {}
    /\ targetFiles = {}
    /\ targetDirs = {}
    /\ MoveFileIdle

FetchIdle ==
    /\ fpc = "idle"
    /\ page = 1
    /\ result = EmptyResult
    /\ items = NoItems
    /\ rowCount = 0
    /\ cancelled = FALSE
    /\ fetchErr = "nil"
    /\ seen = {}
    /\ ret = NilResult
    /\ server = NoServer
    /\ requests = <<>>

ShardsIdle ==
    /\ cuts = <<>>
    /\ shardPc = <<>>
    /\ shardIdx = <<>>
    /\ shardOut = <<>>

MatcherIdle ==
    /\ diskFiles = <<>>
    /\ mctx = EmptyResult
    /\ pc = "idle"
    /\ idx = 1
    /\ untracked = <<>>

InitFetch == FetchIdle /\ MatcherIdle /\ ShardsIdle /\ RunIdle /\ MoverIdle

NextFetch ==
    \/ FetchAllAssets
    \/ FetchPage
    \/ FetchAllAssetsFromDB
    \/ FetchRow
    \/ Cancel

SpecFetch == InitFetch /\ [][NextFetch]_vars

(***************************************************************************)
(* FindUntracked                                                           *)
(***************************************************************************)
Init ==
    /\ diskFiles \in InputLists
    /\ mctx \in MatchContexts
    /\ pc = "loop"
    /\ idx = 1
    /\ untracked = <<>>
    /\ FetchIdle
    /\ ShardsIdle
    /\ RunIdle
    /\ MoverIdle

\* an iteration that takes a matched path out of the match context
FindUntrackedStep_Consume ==
    /\ pc = "loop"
    /\ idx <= Len(diskFiles)
    /\ LET relPath == diskFiles[idx]
           known == isKnown(relPath, mctx)
       IN  /\ pc' = IF known.panic THEN "panicked" ELSE "loop"
           /\ idx' = IF known.panic THEN idx ELSE idx + 1
           /\ untracked' = IF ~known.panic /\ ~known.ok
                           THEN AppendUntracked(untracked, relPath)
                           ELSE untracked
           /\ mctx' = [mctx EXCEPT !.AssetPaths = @ \ {relPath}]
    /\ UNCHANGED diskFiles
    /\ UNCHANGED notMatcher

\* one iteration of "for _, relPath := range diskFiles"
FindUntrackedStep ==
    /\ pc = "loop"
    /\ idx <= Len(diskFiles)
    /\ LET relPath == diskFiles[idx]
           known == isKnown(relPath, mctx)
       IN  /\ pc' = IF known.panic THEN "panicked" ELSE "loop"
           /\ idx' = IF known.panic THEN idx ELSE idx + 1
           /\ untracked' = IF ~known.panic /\ ~known.ok
                           THEN AppendUntracked(untracked, relPath)
                           ELSE untracked
    /\ UNCHANGED <<diskFiles, mctx>>
    /\ UNCHANGED notMatcher

\* the range is exhausted: return untracked
FindUntrackedReturn ==
    /\ pc = "loop"
    /\ idx > Len(diskFiles)
    /\ pc' = "returned"
    /\ UNCHANGED <<diskFiles, mctx, idx, untracked>>
    /\ UNCHANGED notMatcher

Next == FindUntrackedStep \/ FindUntrackedReturn

Spec == Init /\ [][Next]_vars

(***************************************************************************)
(* FindUntracked on shards: the list is cut into contiguous shards, one    *)
(* call of FindUntracked runs on each against the same match context, and  *)
(* the calls interleave with each other and with a call on the whole list. *)
(***************************************************************************)

\* the number of shards
NumShards == 2

Shards == 1..NumShards

\* the match contexts of the sharded runs
ShardContexts ==
    {EmptyResult,
     [AssetPaths |-> {"library/p.jpg"}, AssetIDs |-> {Id1}, UserIDs |-> {}]}

\* the ways to cut a list of n entries: the end of every shard, in order
CutsOf(n) ==
    {c \in [Shards -> 0..n] :
        /\ c[NumShards] = n
        /\ \A w \in Shards : w > 1 => c[w - 1] <= c[w]}

\* diskFiles[cuts[w-1]:cuts[w]]
ShardStart(w) == IF w = 1 THEN 0 ELSE cuts[w - 1]
ShardFiles(w) == SubSeq(diskFiles, ShardStart(w) + 1, cuts[w])

\* the entries of the sharded lists: one that no snapshot knows, one that
\* the second match context knows
ShardEntries == {"foo/p.jpg", "library/p.jpg"}

InitShards ==
    /\ diskFiles \in BoundedSeq(ShardEntries, MaxFiles)
    /\ mctx \in ShardContexts
    /\ pc = "loop"
    /\ idx = 1
    /\ untracked = <<>>
    /\ cuts \in CutsOf(Len(diskFiles))
    /\ shardPc = [w \in Shards |-> "loop"]
    /\ shardIdx = [w \in Shards |-> 1]
    /\ shardOut = [w \in Shards |-> <<>>]
    /\ FetchIdle
    /\ RunIdle
    /\ MoverIdle

\* one iteration of the range loop of the call on shard w
ShardStep(w) ==
    /\ shardPc[w] = "loop"
    /\ shardIdx[w] <= Len(ShardFiles(w))
    /\ LET relPath == ShardFiles(w)[shardIdx[w]]
           known == isKnown(relPath, mctx)
       IN  /\ shardPc' = [shardPc EXCEPT ![w] = IF known.panic THEN "panicked" ELSE "loop"]
           /\ shardIdx' = [shardIdx EXCEPT ![w] = IF known.panic THEN @ ELSE @ + 1]
           /\ shardOut' = [shardOut EXCEPT ![w] =
                              IF ~known.panic /\ ~known.ok
                              THEN AppendUntracked(@, relPath)
                              ELSE @]
    /\ UNCHANGED <<cuts, matcherVars, fetchVars, runVars, moverVars>>

\* the call on shard w returns
ShardReturn(w) ==
    /\ shardPc[w] = "loop"
    /\ shardIdx[w] > Len(ShardFiles(w))
    /\ shardPc' = [shardPc EXCEPT ![w] = "returned"]
    /\ UNCHANGED <<cuts, shardIdx, shardOut, matcherVars, fetchVars, runVars, moverVars>>

NextShards ==
    \/ FindUntrackedStep
    \/ FindUntrackedReturn
    \/ \E w \in Shards : ShardStep(w)
    \/ \E w \in Shards : ShardReturn(w)

SpecShards == InitShards /\ [][NextShards]_vars

(***************************************************************************)
(* The scanner (package scanner). The files of the storage root are a set  *)
(* of forward-slash paths relative to it; every entry of the tree is       *)
(* readable.                                                               *)
(***************************************************************************)

\* a scanner that skips the database dumps only
excludeDirs_BackupsOnly == {"backups"}

\* var excludeDirs
excludeDirs == {"thumbs", "encoded-video", "backups", "profile"}

\* strings.HasPrefix, strings.TrimPrefix
HasPrefix(s, prefix) ==
    Len(s) >= Len(prefix) /\ SubSeq(s, 1, Len(prefix)) = prefix
TrimPrefix(s, prefix) ==
    IF HasPrefix(s, prefix) THEN SubSeq(s, Len(prefix) + 1, Len(s)) ELSE s

\* a file at rel is below a directory that the walk skips: every directory
\* above it has the first segment of rel for its topDir
InSkippedDir(rel) ==
    IndexSlash(rel) > 0 /\ At(SplitN(rel, 2), 0).val \in excludeDirs

\* the files a storage root may hold, in the order filepath.WalkDir meets
\* them (lexical in every directory); Id2 is an identifier of no catalog,
\* and "backups" is a regular file of the storage root
WalkOrder ==
    <<"backups",
      "encoded-video/u/" \o Id2 \o ".mp4",
      "library/admin/p.jpg",
      "library/admin/s.jpg",
      "library/admin/thumbs/t.jpg",
      "profile/" \o Id2 \o "/p.jpg",
      "thumbs/u/" \o Id2 \o "-t.webp",
      "upload/u/s.jpg">>

\* the walk of filepath.WalkDir from the directory root ("" for the storage
\* root, otherwise a path ending in a slash) over the files of the storage
\* root: the relative paths appended to files
RECURSIVE Walk(_, _, _)
Walk(order, files, root) ==
    IF order = <<>> THEN <<>>
    ELSE LET path == Head(order)
             rel == TrimPrefix(path, root)
         IN  (IF path \in files /\ HasPrefix(path, root) /\ ~InSkippedDir(rel)
              THEN <<rel>> ELSE <<>>)
             \o Walk(Tail(order), files, root)

\* ScanFiles(ctx, libraryPath, logger) when ctx is not cancelled
ScanFiles(files, root) == Walk(WalkOrder, files, root)

(***************************************************************************)
(* The mover (package mover). The files of the target directory are        *)
(* records of a relative path and a content; the content of a library file *)
(* is named by its path.                                                   *)
(***************************************************************************)

\* the parent directories of a relative path, filepath.Dir and above
DirsOf(relPath) ==
    {SubSeq(relPath, 1, i - 1) : i \in {j \in 1..Len(relPath) : Char(relPath, j) = "/"}}

\* a mover that does not look at dryRun
MoveOutcomes_IgnoreDryRun(dry, srcExists) ==
    IF srcExists
    THEN {"mkdir", "renamed", "create", "copy", "close", "remove", "copied"}
    ELSE {"mkdir", "open"}

\* how one iteration of MoveOrphans can end: the dry-run "continue", or the
\* first failing call of moveFile / copyFile, or a rename, or a full copy
MoveOutcomes(dry, srcExists) ==
    IF dry THEN {"dry-run"}
    ELSE IF srcExists
    THEN {"mkdir", "renamed", "create", "copy", "close", "remove", "copied"}
    ELSE {"mkdir", "open"}

\* a move that leaves a file already at the destination as it is
Written_KeepOld(files, relPath, content) ==
    IF \E f \in files : f.path = relPath THEN files
    ELSE files \cup {[path |-> relPath, content |-> content]}

\* the target directory with the file at relPath written anew
Written(files, relPath, content) ==
    {f \in files : f.path # relPath} \cup {[path |-> relPath, content |-> content]}

\* a destination that io.Copy did not complete
Partial == "partial"

\* a loop that notes the error of a move and goes on to the next entry
MoveEntry_GoOn ==
    /\ mvPc = "loop"
    /\ mvIdx <= Len(relPaths)
    /\ LET relPath == relPaths[mvIdx]
       IN  \E outcome \in MoveOutcomes(dryRun, relPath \in libFiles) :
             /\ targetDirs' = IF outcome \in {"dry-run", "mkdir"} THEN targetDirs
                              ELSE targetDirs \cup DirsOf(relPath)
             /\ libFiles' = IF outcome \in {"renamed", "copied"}
                            THEN libFiles \ {relPath} ELSE libFiles
             /\ \/ /\ outcome \in {"renamed", "copied", "remove", "close"}
                   /\ targetFiles' = Written(targetFiles, relPath, relPath)
                \/ /\ outcome \in {"copy", "close"}
                   /\ targetFiles' = Written(targetFiles, relPath, Partial)
                \/ /\ outcome \in {"dry-run", "mkdir", "open", "create"}
                   /\ targetFiles' = targetFiles
             /\ IF outcome \in {"dry-run", "renamed", "copied"}
                THEN /\ mvIdx' = mvIdx + 1
                     /\ UNCHANGED <<mvPc, moveErr>>
                ELSE /\ mvPc' = mvPc
                     /\ moveErr' = outcome
                     /\ mvIdx' = mvIdx + 1
    /\ UNCHANGED <<relPaths, dryRun, moveFileVars>>
    /\ UNCHANGED notMover

\* one iteration of "for _, relPath := range relPaths"
MoveEntry ==
    /\ mvPc = "loop"
    /\ mvIdx <= Len(relPaths)
    /\ LET relPath == relPaths[mvIdx]
       IN  \E outcome \in MoveOutcomes(dryRun, relPath \in libFiles) :
             /\ targetDirs' = IF outcome \in {"dry-run", "mkdir"} THEN targetDirs
                              ELSE targetDirs \cup DirsOf(relPath)
             /\ libFiles' = IF outcome \in {"renamed", "copied"}
                            THEN libFiles \ {relPath} ELSE libFiles
             /\ \/ /\ outcome \in {"renamed", "copied", "remove", "close"}
                   /\ targetFiles' = Written(targetFiles, relPath, relPath)
                \/ /\ outcome \in {"copy", "close"}
                   /\ targetFiles' = Written(targetFiles, relPath, Partial)
                \/ /\ outcome \in {"dry-run", "mkdir", "open", "create"}
                   /\ targetFiles' = targetFiles
             /\ IF outcome \in {"dry-run", "renamed", "copied"}
                THEN /\ mvIdx' = mvIdx + 1
                     /\ UNCHANGED <<mvPc, moveErr>>
                ELSE /\ mvPc' = "returned"
                     /\ moveErr' = outcome
                     /\ mvIdx' = mvIdx
    /\ UNCHANGED <<relPaths, dryRun, moveFileVars>>
    /\ UNCHANGED notMover

\* the range is exhausted: return nil
MoveOrphansReturn ==
    /\ mvPc = "loop"
    /\ mvIdx > Len(relPaths)
    /\ mvPc' = "returned"
    /\ UNCHANGED <<relPaths, dryRun, mvIdx, moveErr, libFiles, targetFiles, targetDirs,
                   moveFileVars>>
    /\ UNCHANGED notMover

\* the paths of the lists given to the mover
MovePaths == {"library/admin/s.jpg", "upload/u/s.jpg"}

\* the longest list given to the mover
MaxMoves == 2

\* a file that the target directory holds before the run
OldTarget == [path |-> "library/admin/s.jpg", content |-> "old"]

(***************************************************************************)
(* run (package main)                                                      *)
(***************************************************************************)

\* --path-prefix, its default
PathPrefix == "/data/"

\* --db-url, when given
DbURLs == {"", "postgres://u:p@db:5432/immich"}

ErrNotAdmin == "ErrNotAdmin"

AdminUser == [ID |-> User1, StorageLabel |-> "admin"]
OtherUser == [ID |-> User2, StorageLabel |-> "u"]
NoLabelUser == [ID |-> User1, StorageLabel |-> ""]

\* what GET /api/admin/users can end in: no response, a body that cannot
\* be read, or a status with a body that is a list of users or is not
UsersResponses ==
    {[kind |-> k, status |-> 0, decodable |-> FALSE, users |-> <<>>] :
        k \in {"transport", "readBody"}}
    \cup
    {[kind |-> "http", status |-> 200, decodable |-> TRUE, users |-> u] :
        u \in {<<AdminUser>>, <<AdminUser, OtherUser>>}}
    \cup
    {[kind |-> "http", status |-> s, decodable |-> FALSE, users |-> <<>>] :
        s \in {200, 401, 403, 500}}

\* FetchAllUsers that takes every refusal for a missing admin right
FetchAllUsers_AnyRefusal(resp) ==
    IF resp.kind = "transport" THEN [err |-> "http request", users |-> <<>>]
    ELSE IF resp.kind = "readBody" THEN [err |-> "read response", users |-> <<>>]
    ELSE IF resp.status \in {401, 403} THEN [err |-> ErrNotAdmin, users |-> <<>>]
    ELSE IF resp.status # 200 THEN [err |-> "API returned status", users |-> <<>>]
    ELSE IF ~resp.decodable THEN [err |-> "unmarshal users", users |-> <<>>]
    ELSE [err |-> "nil", users |-> resp.users]

\* client.FetchAllUsers: the error and the users it returns
FetchAllUsers(resp) ==
    IF resp.kind = "transport" THEN [err |-> "http request", users |-> <<>>]
    ELSE IF resp.kind = "readBody" THEN [err |-> "read response", users |-> <<>>]
    ELSE IF resp.status = 403 THEN [err |-> ErrNotAdmin, users |-> <<>>]
    ELSE IF resp.status # 200 THEN [err |-> "API returned status", users |-> <<>>]
    ELSE IF ~resp.decodable THEN [err |-> "unmarshal users", users |-> <<>>]
    ELSE [err |-> "nil", users |-> resp.users]

\* what a complete fetch can return: the merge of the pages of a server
Catalogs == {MergeItems(EmptyResult, batch) : batch \in ItemLists}

\* the most files under the storage root
MaxDisk == 2

\* the storage roots of the model
Disks == {d \in SUBSET Records(WalkOrder) : Cardinality(d) <= MaxDisk}

fetchRest ==
    <<fpc, page, items, rowCount, cancelled, fetchErr, seen, ret, server, requests>>

\* a return of run with an error, after the call named
RunFails(call, msg) ==
    /\ rpc' = "returned"
    /\ runErr' = msg
    /\ calls' = Append(calls, call)

\* Step 1: client.FetchAllUsers and the choice of the mode; a request made
\* with a cancelled ctx gets no response
RunFetchAllUsers ==
    /\ rpc = "start"
    /\ \E resp \in {r \in UsersResponses : cancelled => r.kind = "transport"} :
         LET r == FetchAllUsers(resp)
         IN  /\ usersResp' = resp
             /\ usersErr' = r.err
             /\ adminMode' = (r.err = "nil")
             /\ allUserIDs' = IF r.err = "nil"
                              THEN {r.users[i].ID : i \in 1..Len(r.users)}
                              ELSE {}
             /\ IF r.err = "nil" \/ r.err = ErrNotAdmin
                THEN /\ rpc' = "fetch"
                     /\ calls' = Append(calls, "FetchAllUsers")
                     /\ runErr' = runErr
                ELSE RunFails("FetchAllUsers", "check admin status")
    /\ UNCHANGED <<dbURL, doMove, user>>
    /\ UNCHANGED <<matcherVars, fetchVars, shardVars, moverVars>>

\* adminMode && dbURL != "": immich.FetchAllAssetsFromDB
RunFetchFromDB ==
    /\ rpc = "fetch"
    /\ adminMode /\ dbURL # ""
    /\ \/ \E c \in Catalogs :
            /\ ~cancelled
            /\ result' = c
            /\ rpc' = "mergeUsers"
            /\ calls' = Append(calls, "FetchAllAssetsFromDB")
            /\ runErr' = runErr
       \/ /\ RunFails("FetchAllAssetsFromDB", "fetch assets from database")
          /\ result' = result
    /\ UNCHANGED <<dbURL, doMove, usersResp, usersErr, adminMode, allUserIDs, user>>
    /\ UNCHANGED <<matcherVars, fetchRest, shardVars, moverVars>>

\* for uid := range allUserIDs { result.UserIDs[uid] = struct{}{} }
RunMergeUserIDs ==
    /\ rpc = "mergeUsers"
    /\ result' = [result EXCEPT !.UserIDs = @ \cup allUserIDs]
    /\ rpc' = "stripAdmin"
    /\ UNCHANGED <<dbURL, doMove, usersResp, usersErr, adminMode, allUserIDs, user,
                   runErr, calls>>
    /\ UNCHANGED <<matcherVars, fetchRest, shardVars, moverVars>>

\* result.AssetPaths = strippedPaths (admin mode)
RunStripAdmin ==
    /\ rpc = "stripAdmin"
    /\ result' = [result EXCEPT !.AssetPaths = {TrimPrefix(p, PathPrefix) : p \in @}]
    /\ rpc' = "scanAdmin"
    /\ UNCHANGED <<dbURL, doMove, usersResp, usersErr, adminMode, allUserIDs, user,
                   runErr, calls>>
    /\ UNCHANGED <<matcherVars, fetchRest, shardVars, moverVars>>

\* scanner.ScanFiles(ctx, libraryPath, logger), the match context, and the
\* call of matcher.FindUntracked; the walk returns ctx.Err() when ctx is
\* cancelled and no other error
RunScanAdmin ==
    /\ rpc = "scanAdmin"
    /\ \/ /\ ~cancelled
          /\ diskFiles' = ScanFiles(libFiles, "")
          /\ mctx' = [AssetPaths |-> result.AssetPaths,
                      AssetIDs   |-> result.AssetIDs,
                      UserIDs    |-> result.UserIDs]
          /\ pc' = "loop"
          /\ idx' = 1
          /\ untracked' = <<>>
          /\ rpc' = "match"
          /\ calls' = calls \o <<"ScanFiles", "FindUntracked">>
          /\ runErr' = runErr
       \/ /\ cancelled
          /\ RunFails("ScanFiles", "scan filesystem")
          /\ UNCHANGED matcherVars
    /\ UNCHANGED <<dbURL, doMove, usersResp, usersErr, adminMode, allUserIDs, user>>
    /\ UNCHANGED <<fetchVars, shardVars, moverVars>>

\* client.FetchCurrentUser and the test of the storage label
RunFetchCurrentUser ==
    /\ rpc = "fetch"
    /\ ~(adminMode /\ dbURL # "")
    /\ \/ \E u \in {v \in {AdminUser, NoLabelUser} : ~cancelled} :
            IF u.StorageLabel = ""
            THEN /\ RunFails("FetchCurrentUser", "no storage label")
                 /\ user' = user
            ELSE /\ user' = u
                 /\ rpc' = "fetchAPI"
                 /\ calls' = Append(calls, "FetchCurrentUser")
                 /\ runErr' = runErr
       \/ /\ RunFails("FetchCurrentUser", "fetch current user")
          /\ user' = user
    /\ UNCHANGED <<dbURL, doMove, usersResp, usersErr, adminMode, allUserIDs>>
    /\ UNCHANGED <<matcherVars, fetchVars, shardVars, moverVars>>

\* a run that notes the error of the fetch and goes on with an empty catalog
RunFetchAllAssets_GoOn ==
    /\ rpc = "fetchAPI"
    /\ result' = EmptyResult
    /\ rpc' = "addUser"
    /\ calls' = Append(calls, "FetchAllAssets")
    /\ runErr' = "fetch assets"
    /\ UNCHANGED <<dbURL, doMove, usersResp, usersErr, adminMode, allUserIDs, user>>
    /\ UNCHANGED <<matcherVars, fetchRest, shardVars, moverVars>>

\* client.FetchAllAssets
RunFetchAllAssets ==
    /\ rpc = "fetchAPI"
    /\ \/ \E c \in Catalogs :
            /\ ~cancelled
            /\ result' = c
            /\ rpc' = "addUser"
            /\ calls' = Append(calls, "FetchAllAssets")
            /\ runErr' = runErr
       \/ /\ RunFails("FetchAllAssets", "fetch assets")
          /\ result' = result
    /\ UNCHANGED <<dbURL, doMove, usersResp, usersErr, adminMode, allUserIDs, user>>
    /\ UNCHANGED <<matcherVars, fetchRest, shardVars, moverVars>>

\* result.UserIDs[user.ID] = struct{}{}
RunAddUserID ==
    /\ rpc = "addUser"
    /\ result' = [result EXCEPT !.UserIDs = @ \cup {user.ID}]
    /\ rpc' = "scanUser"
    /\ UNCHANGED <<dbURL, doMove, usersResp, usersErr, adminMode, allUserIDs, user,
                   runErr, calls>>
    /\ UNCHANGED <<matcherVars, fetchRest, shardVars, moverVars>>

\* scanner.ScanFiles(ctx, userLibrary, logger) and diskPrefix + f
RunScanUser ==
    /\ rpc = "scanUser"
    /\ LET diskPrefix == "library/" \o user.StorageLabel \o "/"
           rawFiles == ScanFiles(libFiles, diskPrefix)
       IN  \/ /\ ~cancelled
              /\ diskFiles' = [i \in 1..Len(rawFiles) |-> diskPrefix \o rawFiles[i]]
              /\ rpc' = "stripUser"
              /\ calls' = Append(calls, "ScanFiles")
              /\ runErr' = runErr
           \/ /\ cancelled
              /\ RunFails("ScanFiles", "scan filesystem")
              /\ diskFiles' = diskFiles
    /\ UNCHANGED <<mctx, pc, idx, untracked>>
    /\ UNCHANGED <<dbURL, doMove, usersResp, usersErr, adminMode, allUserIDs, user>>
    /\ UNCHANGED <<fetchVars, shardVars, moverVars>>

\* a run that matches against the paths as the catalog has them
RunStripUser_NoStrip ==
    /\ rpc = "stripUser"
    /\ mctx' = [AssetPaths |-> result.AssetPaths,
                AssetIDs   |-> result.AssetIDs,
                UserIDs    |-> result.UserIDs]
    /\ pc' = "loop"
    /\ idx' = 1
    /\ untracked' = <<>>
    /\ rpc' = "match"
    /\ calls' = Append(calls, "FindUntracked")
    /\ UNCHANGED <<diskFiles, result>>
    /\ UNCHANGED <<dbURL, doMove, usersResp, usersErr, adminMode, allUserIDs, user, runErr>>
    /\ UNCHANGED <<fetchRest, shardVars, moverVars>>

\* result.AssetPaths = strippedPaths (single-user mode), the match context,
\* and the call of matcher.FindUntracked
RunStripUser ==
    /\ rpc = "stripUser"
    /\ LET strippedPaths == {TrimPrefix(p, PathPrefix) : p \in result.AssetPaths}
       IN  /\ result' = [result EXCEPT !.AssetPaths = strippedPaths]
           /\ mctx' = [AssetPaths |-> strippedPaths,
                       AssetIDs   |-> result.AssetIDs,
                       UserIDs    |-> result.UserIDs]
    /\ pc' = "loop"
    /\ idx' = 1
    /\ untracked' = <<>>
    /\ rpc' = "match"
    /\ calls' = Append(calls, "FindUntracked")
    /\ UNCHANGED diskFiles
    /\ UNCHANGED <<dbURL, doMove, usersResp, usersErr, adminMode, allUserIDs, user, runErr>>
    /\ UNCHANGED <<fetchRest, shardVars, moverVars>>

\* reportAndMove: nothing to report, or mover.MoveOrphans(..., !doMove, ...)
RunReportAndMove ==
    /\ rpc = "match"
    /\ pc = "returned"
    /\ IF untracked = <<>>
       THEN /\ rpc' = "returned"
            /\ UNCHANGED <<calls, relPaths, dryRun, mvPc>>
       ELSE /\ rpc' = "move"
            /\ calls' = Append(calls, "MoveOrphans")
            /\ relPaths' = untracked
            /\ dryRun' = ~doMove
            /\ mvPc' = "loop"
    /\ UNCHANGED <<dbURL, doMove, usersResp, usersErr, adminMode, allUserIDs, user, runErr>>
    /\ UNCHANGED <<mvIdx, moveErr, libFiles, targetFiles, targetDirs, moveFileVars>>
    /\ UNCHANGED <<matcherVars, fetchVars, shardVars>>

\* return mover.MoveOrphans(...)
RunReturn ==
    /\ rpc = "move"
    /\ mvPc = "returned"
    /\ rpc' = "returned"
    /\ runErr' = moveErr
    /\ UNCHANGED <<dbURL, doMove, usersResp, usersErr, adminMode, allUserIDs, user, calls>>
    /\ UNCHANGED <<matcherVars, fetchVars, shardVars, moverVars>>

InitRun ==
    /\ rpc = "start"
    /\ dbURL \in DbURLs
    /\ doMove \in BOOLEAN
    /\ usersResp = NoResponse
    /\ usersErr = "nil"
    /\ adminMode = FALSE
    /\ allUserIDs = {}
    /\ user = NoUser
    /\ runErr = "nil"
    /\ calls = <<>>
    /\ relPaths = <<>>
    /\ dryRun = TRUE
    /\ mvIdx = 1
    /\ mvPc = "idle"
    /\ moveErr = "nil"
    /\ libFiles \in Disks
    /\ targetFiles = {}
    /\ targetDirs = {}
    /\ MoveFileIdle
    /\ MatcherIdle
    /\ FetchIdle
    /\ ShardsIdle

NextRun ==
    \/ RunFetchAllUsers
    \/ RunFetchFromDB
    \/ RunMergeUserIDs
    \/ RunStripAdmin
    \/ RunScanAdmin
    \/ RunFetchCurrentUser
    \/ RunFetchAllAssets
    \/ RunAddUserID
    \/ RunScanUser
    \/ RunStripUser
    \/ FindUntrackedStep
    \/ FindUntrackedReturn
    \/ RunReportAndMove
    \/ MoveEntry
    \/ MoveOrphansReturn
    \/ RunReturn
    \/ Cancel

SpecRun == InitRun /\ [][NextRun]_vars

\* MoveOrphans called on its own
InitMove ==
    /\ relPaths \in BoundedSeq(MovePaths, MaxMoves)
    /\ dryRun \in BOOLEAN
    /\ mvIdx = 1
    /\ mvPc = "loop"
    /\ moveErr = "nil"
    /\ libFiles \in SUBSET MovePaths
    /\ targetFiles \in {{}, {OldTarget}}
    /\ targetDirs = {}
    /\ MoveFileIdle
    /\ RunIdle
    /\ MatcherIdle
    /\ FetchIdle
    /\ ShardsIdle

NextMove == MoveEntry \/ MoveOrphansReturn

SpecMove == InitMove /\ [][NextMove]_vars

(***************************************************************************)
(* moveFile and copyFile, call by call, on one source and one destination. *)
(* The bytes of a file are a string; io.Copy writes them one at a time.    *)
(***************************************************************************)

\* the longest content of a file
MaxData == 3

\* the contents of the files of the model: the empty file included
Contents == {SubSeq(Digits, 1, n) : n \in 0..MaxData}

File(data) == [exists |-> TRUE, data |-> data]

\* the prefixes of a content
Prefixes(data) == {SubSeq(data, 1, n) : n \in 0..Len(data)}

\* what the move does with the source once the copy has closed, whatever
\* the outcome of the copy: go on to os.Remove
AfterCopyFile_Always(err) == "remove"

\* "if err := copyFile(src, dst); err != nil { return err }": the position
\* after copyFile has returned err
AfterCopyFile(err) == IF err = "nil" THEN "remove" ELSE "returned"

\* what the steps of moveFile leave alone
moveFileRest ==
    <<relPaths, dryRun, mvIdx, mvPc, moveErr, libFiles, targetFiles, targetDirs, srcWas>>

\* a return of moveFile
MoveFileReturns(err) ==
    /\ mfPc' = "returned"
    /\ mfErr' = err

\* os.MkdirAll(dstDir, 0o755)
MkdirAll ==
    /\ mfPc = "mkdir"
    /\ \/ mfPc' = "rename" /\ mfErr' = mfErr
       \/ MoveFileReturns("create directory")
    /\ UNCHANGED <<srcFile, dstFile>>
    /\ UNCHANGED moveFileRest
    /\ UNCHANGED notMover

\* os.Rename(src, dst): the file changes its place, or nothing happens and
\* the fallback starts
Rename ==
    /\ mfPc = "rename"
    /\ \/ /\ srcFile.exists
          /\ dstFile' = srcFile
          /\ srcFile' = NoFile
          /\ MoveFileReturns("nil")
       \/ /\ mfPc' = "open"
          /\ UNCHANGED <<srcFile, dstFile, mfErr>>
    /\ UNCHANGED moveFileRest
    /\ UNCHANGED notMover

\* copyFile: os.Open(src)
Open ==
    /\ mfPc = "open"
    /\ \/ /\ srcFile.exists
          /\ mfPc' = "stat"
          /\ mfErr' = mfErr
       \/ MoveFileReturns("open source")
    /\ UNCHANGED <<srcFile, dstFile>>
    /\ UNCHANGED moveFileRest
    /\ UNCHANGED notMover

\* copyFile: srcFile.Stat()
Stat ==
    /\ mfPc = "stat"
    /\ \/ mfPc' = "create" /\ mfErr' = mfErr
       \/ MoveFileReturns("stat source")
    /\ UNCHANGED <<srcFile, dstFile>>
    /\ UNCHANGED moveFileRest
    /\ UNCHANGED notMover

\* copyFile: os.OpenFile(dst, os.O_CREATE|os.O_WRONLY|os.O_TRUNC, mode)
Create ==
    /\ mfPc = "create"
    /\ \/ /\ dstFile' = File("")
          /\ mfPc' = "copy"
          /\ mfErr' = mfErr
       \/ /\ MoveFileReturns("create destination")
          /\ dstFile' = dstFile
    /\ UNCHANGED srcFile
    /\ UNCHANGED moveFileRest
    /\ UNCHANGED notMover

\* copyFile: io.Copy(dstFile, srcFile), one byte written, or the end of the
\* source reached, or an error
Copy ==
    /\ mfPc = "copy"
    /\ LET n == Len(dstFile.data)
       IN  \/ /\ n < Len(srcFile.data)
              /\ dstFile' = File(SubSeq(srcFile.data, 1, n + 1))
              /\ UNCHANGED <<mfPc, mfErr>>
           \/ /\ n = Len(srcFile.data)
              /\ mfPc' = "close"
              /\ UNCHANGED <<dstFile, mfErr>>
           \/ /\ MoveFileReturns("copy data")
              /\ dstFile' = dstFile
    /\ UNCHANGED srcFile
    /\ UNCHANGED moveFileRest
    /\ UNCHANGED notMover

\* copyFile: return dstFile.Close(); a failing Close may have lost bytes
\* that were written
Close ==
    /\ mfPc = "close"
    /\ \/ /\ mfPc' = AfterCopyFile("nil")
          /\ UNCHANGED <<dstFile, mfErr>>
       \/ /\ mfPc' = AfterCopyFile("close")
          /\ mfErr' = IF mfPc' = "returned" THEN "close" ELSE mfErr
          /\ \E data \in Prefixes(dstFile.data) : dstFile' = File(data)
    /\ UNCHANGED srcFile
    /\ UNCHANGED moveFileRest
    /\ UNCHANGED notMover

\* return os.Remove(src)
Remove ==
    /\ mfPc = "remove"
    /\ \/ /\ srcFile' = NoFile
          /\ MoveFileReturns("nil")
       \/ /\ srcFile' = srcFile
          /\ MoveFileReturns("remove")
    /\ UNCHANGED dstFile
    /\ UNCHANGED moveFileRest
    /\ UNCHANGED notMover

\* a file that the destination holds before the move
OldFile == File("old")

\* moveFile called on its own
InitMoveFile ==
    /\ mfPc = "mkdir"
    /\ srcFile \in {NoFile} \cup {File(data) : data \in Contents}
    /\ dstFile \in {NoFile, OldFile}
    /\ mfErr = "nil"
    /\ srcWas = srcFile
    /\ relPaths = <<>>
    /\ dryRun = TRUE
    /\ mvIdx = 1
    /\ mvPc = "idle"
    /\ moveErr = "nil"
    /\ libFiles = {}
    /\ targetFiles = {}
    /\ targetDirs = {}
    /\ RunIdle
    /\ MatcherIdle
    /\ FetchIdle
    /\ ShardsIdle

NextMoveFile ==
    \/ MkdirAll
    \/ Rename
    \/ Open
    \/ Stat
    \/ Create
    \/ Copy
    \/ Close
    \/ Remove

SpecMoveFile == InitMoveFile /\ [][NextMoveFile]_vars

(***************************************************************************)
(* What the properties speak of                                            *)
(***************************************************************************)

\* the entries whose verdict FindUntracked has reached
Processed == {diskFiles[i] : i \in 1..(idx - 1)}

\* the entry is in the list of untracked files
Reported(e) == \E j \in 1..Len(untracked) : untracked[j] = e

SlashPositions(e) == {i \in 1..Len(e) : Char(e, i) = "/"}
FirstSlashOf(e) == CHOOSE i \in SlashPositions(e) : \A j \in SlashPositions(e) : i <= j
LastSlashOf(e) == CHOOSE i \in SlashPositions(e) : \A j \in SlashPositions(e) : j <= i

\* the text before the first slash (the whole entry when it has none)
TopSegment(e) ==
    IF SlashPositions(e) = {} THEN e ELSE SubSeq(e, 1, FirstSlashOf(e) - 1)

\* the text after the last slash (the whole entry when it has none)
FileName(e) ==
    IF SlashPositions(e) = {} THEN e ELSE SubSeq(e, LastSlashOf(e) + 1, Len(e))

HasSecondSegment(e) == SlashPositions(e) # {}

\* the text between the first slash and the next one (or the end)
SecondSegment(e) ==
    LET later == {i \in SlashPositions(e) : i > FirstSlashOf(e)}
    IN  IF later = {} THEN SubSeq(e, FirstSlashOf(e) + 1, Len(e))
        ELSE SubSeq(e, FirstSlashOf(e) + 1,
                    (CHOOSE i \in later : \A j \in later : i <= j) - 1)

\* a 36-character token of five hyphen-separated hexadecimal groups 8-4-4-4-12
IsIdentifier(s) ==
    /\ Len(s) = 36
    /\ \A i \in 1..36 : (Char(s, i) = "-") <=> (i \in {9, 14, 19, 24})
    /\ \A i \in (1..36) \ {9, 14, 19, 24} : Char(s, i) \in HexDigits

Marker == ".immich"
PrimaryDirs == {"library", "upload"}
DerivedDirs == {"thumbs", "encoded-video"}
DesignatedDirs == PrimaryDirs \cup DerivedDirs \cup {"profile"}

\* the slashes of e after which an identifier stands, e being of the form
\* <derived-dir>/<anything>/<id><suffix>
IdSlashes(e) ==
    {q \in SlashPositions(e) :
        /\ TopSegment(e) \in DerivedDirs
        /\ q > FirstSlashOf(e)
        /\ q + 36 <= Len(e)
        /\ IsIdentifier(SubSeq(e, q + 1, q + 36))}
IdAfter(e, q) == SubSeq(e, q + 1, q + 36)
SuffixAfter(e, q) == SubSeq(e, q + 37, Len(e))

\* the first 36 characters of a name ("" when it is shorter)
Leading(s) == IF Len(s) < 36 THEN "" ELSE SubSeq(s, 1, 36)

\* two identifiers that differ at most in the letter case
SameButCase(a, b) == Lower(a) = Lower(b)

(***************************************************************************)
(* C1: a file whose base filename is the marker name .immich is never      *)
(* reported untracked, at any depth, under any top-level directory, for    *)
(* every snapshot.                                                         *)
(* The code decides by the top-level segment, so library/sub/.immich and   *)
(* thumbs/.immich are reported.                                            *)
(***************************************************************************)
C1_MarkerNeverUntracked ==
    \A e \in Processed : FileName(e) = Marker => ~Reported(e)

(***************************************************************************)
(* C2: an entry under library/ or upload/ that is no marker file is        *)
(* reported untracked if and only if its exact, case-sensitive path is not *)
(* in the path set.                                                        *)
(***************************************************************************)
C2_PrimaryExactMatch ==
    \A e \in Processed :
        (TopSegment(e) \in PrimaryDirs /\ FileName(e) # Marker)
            => (Reported(e) <=> e \notin mctx.AssetPaths)

\* library/P.jpg is reported although library/p.jpg is in the path set
C2_Witness ==
    /\ pc = "returned"
    /\ diskFiles = <<"library/P.jpg">>
    /\ "library/p.jpg" \in mctx.AssetPaths
    /\ "library/P.jpg" \notin mctx.AssetPaths
    /\ untracked = <<"library/P.jpg">>

(***************************************************************************)
(* C3 as stated: for every identifier of the content-identifier set and    *)
(* any suffix whatsoever, <derived-dir>/<anything>/<id><suffix> is never   *)
(* reported untracked.                                                     *)
(***************************************************************************)
C3_KnownIdAnySuffix ==
    \A e \in Processed : \A q \in IdSlashes(e) :
        IdAfter(e, q) \in mctx.AssetIDs => ~Reported(e)

(***************************************************************************)
(* C3 as amended: the same for every suffix that holds no "/", that is     *)
(* when <id><suffix> is the file name of the entry.                        *)
(***************************************************************************)
C3_KnownIdFileSuffix ==
    \A e \in Processed : \A q \in IdSlashes(e) :
        (IdAfter(e, q) \in mctx.AssetIDs /\ SlashPositions(SuffixAfter(e, q)) = {})
            => ~Reported(e)

\* a thumbnail named <id>-t.webp of a catalogued identifier is not reported
C3_Witness ==
    /\ pc = "returned"
    /\ diskFiles = <<"thumbs/u/" \o Id1 \o "-t.webp">>
    /\ Id1 \in mctx.AssetIDs
    /\ mctx.AssetPaths = {}
    /\ untracked = <<>>

(***************************************************************************)
(* C4 as stated: for every valid identifier that is not in the             *)
(* content-identifier set, <derived-dir>/<anything>/<id><suffix> is always *)
(* reported untracked, whatever the path set and the owner set hold.       *)
(***************************************************************************)
C4_UnknownIdAnySuffix ==
    \A e \in Processed : \A q \in IdSlashes(e) :
        IdAfter(e, q) \notin mctx.AssetIDs => Reported(e)

(***************************************************************************)
(* C4 as amended: the same for every suffix that holds no "/".             *)
(***************************************************************************)
C4_UnknownIdFileSuffix ==
    \A e \in Processed : \A q \in IdSlashes(e) :
        (IdAfter(e, q) \notin mctx.AssetIDs /\ SlashPositions(SuffixAfter(e, q)) = {})
            => Reported(e)

\* reported although the path is in the path set and the identifier is an owner
C4_Witness ==
    /\ pc = "returned"
    /\ diskFiles = <<"thumbs/u/" \o Id1 \o "-t.webp">>
    /\ Id1 \notin mctx.AssetIDs
    /\ Id1 \in mctx.UserIDs
    /\ ("thumbs/u/" \o Id1 \o "-t.webp") \in mctx.AssetPaths
    /\ untracked = diskFiles

(***************************************************************************)
(* C5 as stated: under thumbs/, encoded-video/ and profile/ an identifier  *)
(* taken from the file name or the 2nd segment matches a catalog           *)
(* identifier that differs from it only in letter case, so the entry is    *)
(* not reported.                                                           *)
(***************************************************************************)
C5_IdCaseInsensitive ==
    \A e \in Processed :
        /\ (/\ TopSegment(e) \in DerivedDirs
            /\ IsIdentifier(Leading(FileName(e)))
            /\ \E c \in mctx.AssetIDs : SameButCase(c, Leading(FileName(e))))
              => ~Reported(e)
        /\ (/\ TopSegment(e) = "profile"
            /\ HasSecondSegment(e)
            /\ IsIdentifier(SecondSegment(e))
            /\ \E c \in mctx.UserIDs : SameButCase(c, SecondSegment(e)))
              => ~Reported(e)

(***************************************************************************)
(* C5 as amended: an identifier is recognised in either letter case, but   *)
(* it is compared exactly: an entry whose identifier is not in the set as  *)
(* spelled is reported untracked even when the set holds the same          *)
(* identifier in another letter case.                                      *)
(***************************************************************************)
C5_IdCaseSensitive ==
    \A e \in Processed :
        /\ (/\ TopSegment(e) \in DerivedDirs
            /\ IsIdentifier(Leading(FileName(e)))
            /\ Leading(FileName(e)) \notin mctx.AssetIDs
            /\ \E c \in mctx.AssetIDs : SameButCase(c, Leading(FileName(e))))
              => Reported(e)
        /\ (/\ TopSegment(e) = "profile"
            /\ HasSecondSegment(e)
            /\ IsIdentifier(SecondSegment(e))
            /\ SecondSegment(e) \notin mctx.UserIDs
            /\ \E c \in mctx.UserIDs : SameButCase(c, SecondSegment(e)))
              => Reported(e)

\* the upper-case spelling of a catalogued identifier is reported
C5_Witness ==
    /\ pc = "returned"
    /\ diskFiles = <<"profile/" \o Id1Upper \o "/p.jpg">>
    /\ mctx.UserIDs = {Id1}
    /\ untracked = diskFiles

C7_UnknownTopUntracked ==
    \A e \in Processed :
        (TopSegment(e) \notin DesignatedDirs /\ FileName(e) # Marker) => Reported(e)

(***************************************************************************)
(* C8 as stated: the empty string and every entry without a "/" are        *)
(* reported untracked for every snapshot, and no error is raised.          *)
(***************************************************************************)
C8_SingleSegmentUntracked ==
    /\ \A e \in Processed : SlashPositions(e) = {} => Reported(e)
    /\ \A i \in 1..Len(diskFiles) :
          SlashPositions(diskFiles[i]) = {} => ~(pc = "panicked" /\ idx = i)

(***************************************************************************)
(* C8 as amended: the empty string and every entry without a "/" other     *)
(* than .immich, library and upload are reported untracked for every       *)
(* snapshot; .immich is never reported; library and upload are reported    *)
(* exactly when the path set does not hold them; no error is raised.       *)
(***************************************************************************)
C8_SingleSegmentVerdict ==
    /\ \A e \in Processed :
          SlashPositions(e) = {}
            => (Reported(e) <=> /\ e # Marker
                                /\ ~(e \in PrimaryDirs /\ e \in mctx.AssetPaths))
    /\ \A i \in 1..Len(diskFiles) :
          SlashPositions(diskFiles[i]) = {} => ~(pc = "panicked" /\ idx = i)

\* the empty string is reported, even by a path set that holds it
C8_Witness ==
    /\ pc = "returned"
    /\ diskFiles = <<"">>
    /\ "" \in mctx.AssetPaths
    /\ untracked = <<"">>

\* the verdict of the entry is "not known"
NotKnown(e) == ~isKnown(e, mctx).ok

(***************************************************************************)
(* C9: FindUntracked returns exactly the subsequence of its input made of  *)
(* the entries that are not known, in input order and without removing     *)
(* duplicates (an untracked entry met k times is returned k times).        *)
(***************************************************************************)
C9_OrderedSubsequence ==
    /\ pc = "loop" => untracked = SelectSeq(SubSeq(diskFiles, 1, idx - 1), NotKnown)
    /\ pc = "returned" => untracked = SelectSeq(diskFiles, NotKnown)

\* an untracked entry twice in the input, a known entry between them
C9_Witness ==
    /\ pc = "returned"
    /\ diskFiles = <<"foo/p.jpg", "library/p.jpg", "foo/p.jpg">>
    /\ "library/p.jpg" \in mctx.AssetPaths
    /\ untracked = <<"foo/p.jpg", "foo/p.jpg">>

(***************************************************************************)
(* C10: matching is total: for every entry and every snapshot isKnown      *)
(* gives a verdict and nothing faults: no out-of-range slice in            *)
(* extractUUID, no missing segment in matchByUserID, and FindUntracked     *)
(* returns after it has decided every entry.                               *)
(***************************************************************************)
C10_NeverFaults ==
    /\ pc # "panicked"
    /\ pc = "returned" => idx = Len(diskFiles) + 1
    /\ \A i \in 1..Len(diskFiles) :
          /\ ~isKnown(diskFiles[i], mctx).panic
          /\ ~extractUUID(diskFiles[i]).panic
          /\ ~matchByAssetID(diskFiles[i], mctx.AssetIDs).panic
          /\ ~matchByUserID(diskFiles[i], mctx.UserIDs).panic

\* a name shorter than an identifier under thumbs/, three empty sets
C10_Witness ==
    /\ pc = "returned"
    /\ diskFiles = <<"thumbs/p.jpg">>
    /\ mctx = [AssetPaths |-> {}, AssetIDs |-> {}, UserIDs |-> {}]
    /\ untracked = diskFiles

(***************************************************************************)
(* What the properties of the fetch speak of                               *)
(***************************************************************************)

\* the non-empty values of one field over the records of a batch
PathsOf(batch) == {batch[i].OriginalPath : i \in 1..Len(batch)} \ {""}
IdsOf(batch) == {batch[i].ID : i \in 1..Len(batch)} \ {""}
OwnersOf(batch) == {batch[i].OwnerID : i \in 1..Len(batch)} \ {""}

\* the three sets, each grown by the non-empty values of its own field
GrownBy(res, batch) ==
    [AssetPaths |-> res.AssetPaths \cup PathsOf(batch),
     AssetIDs   |-> res.AssetIDs \cup IdsOf(batch),
     UserIDs    |-> res.UserIDs \cup OwnersOf(batch)]

\* the lists that hold every record of a set once
Orderings(S) ==
    {f \in [1..Cardinality(S) -> S] : \A i, j \in 1..Cardinality(S) : f[i] = f[j] => i = j}

\* the fetch is folding records into the result
Fetching == fpc \in {"loop", "rows"}

NoPathRecord == [ID |-> Id3, OwnerID |-> User2, OriginalPath |-> ""]
FirstOwnerRecord ==
    [ID |-> Id1, OwnerID |-> User1, OriginalPath |-> "/data/library/admin/p.jpg"]
OtherOwnerRecord ==
    [ID |-> Id1, OwnerID |-> User2, OriginalPath |-> "/data/upload/u/q.jpg"]

(***************************************************************************)
(* C11: merging a batch adds, for each record, its path to the path set,   *)
(* its identifier to the identifier set and its owner to the owner set,    *)
(* each on its own and only when the field is not empty; a record with an  *)
(* empty path still gives its identifier and owner, and nothing else is    *)
(* added to any set.                                                       *)
(***************************************************************************)
C11_MergeByField ==
    [][(Fetching /\ items'.decoded) => result' = GrownBy(result, items'.list)]_vars

\* a row without a path has given its identifier and its owner
C11_Witness ==
    /\ fpc = "rows"
    /\ items = Decoded(<<NoPathRecord>>)
    /\ result = [AssetPaths |-> {}, AssetIDs |-> {Id3}, UserIDs |-> {User2}]

(***************************************************************************)
(* C12: the three sets only grow while batches arrive: after every page    *)
(* merged by fetchAssetsPage and every row folded by FetchAllAssetsFromDB  *)
(* each set includes its value before that step, also when a later batch   *)
(* repeats an identifier with another owner or another path.               *)
(***************************************************************************)
C12_AppendOnly ==
    [][Fetching =>
          /\ result.AssetPaths \subseteq result'.AssetPaths
          /\ result.AssetIDs \subseteq result'.AssetIDs
          /\ result.UserIDs \subseteq result'.UserIDs]_vars

\* the second page repeated the identifier of the first with another owner
C12_Witness ==
    /\ fpc = "loop"
    /\ page = 3
    /\ items = Decoded(<<OtherOwnerRecord>>)
    /\ result = GrownBy(EmptyResult, <<FirstOwnerRecord, OtherOwnerRecord>>)

(***************************************************************************)
(* C14: merging does not depend on how the records are batched: from the   *)
(* same snapshot, merging b1 and then b2 gives the three sets that merging *)
(* the union of b1 and b2 once gives, also when the batches overlap, and   *)
(* merging a batch twice gives what merging it once gives.                 *)
(* However the server split its records into pages (or rows), repeated or  *)
(* not, the result is what one merge of their union gives, in any order;   *)
(* and from every snapshot the fetch reaches, two batches merged one after *)
(* the other give what they give the other way round, and a batch merged   *)
(* twice gives what it gives once.                                         *)
(***************************************************************************)
C14_BatchingInsensitive ==
    /\ \A order \in Orderings(seen) : result = MergeItems(EmptyResult, order)
    /\ \A a \in Assets, b \in Assets :
          /\ MergeItems(MergeItems(result, <<a>>), <<b>>) = MergeItems(result, <<b, a>>)
          /\ MergeItems(MergeItems(result, <<a, b>>), <<a, b>>) = MergeItems(result, <<a, b>>)

\* two pages were merged, both with a record of the owner User2
C14_Witness ==
    /\ fpc = "returned"
    /\ fetchErr = "nil"
    /\ page = 2
    /\ items = Decoded(<<FirstOwnerRecord, OtherOwnerRecord>>)
    /\ result = GrownBy(EmptyResult, <<NoPathRecord, FirstOwnerRecord, OtherOwnerRecord>>)

\* the strings of an entry that the properties of extractUUID look at: the
\* entry, the text after its last slash, and its path.Base
NamesOf(e) == {e, FileName(e), Base(e)}

\* the entry that the last iteration of FindUntracked has decided
JustDecided == IF idx > 1 THEN {diskFiles[idx - 1]} ELSE {}

(***************************************************************************)
(* C15: extractUUID looks only at the first 36 characters of its argument: *)
(* it returns exactly those 36 characters if and only if they form a valid *)
(* identifier, and none otherwise: for every string shorter than 36        *)
(* characters, for a prefix with the hyphens in place but a character that *)
(* is no hexadecimal digit, and for a string that holds a valid identifier *)
(* anywhere but at position 0. FindUntracked decides the entries of        *)
(* thumbs/ and encoded-video/ by that value.                               *)
(***************************************************************************)
C15_LeadingIdentifier ==
    /\ \A e \in JustDecided : \A s \in NamesOf(e) :
          extractUUID(s) = IF IsIdentifier(Leading(s)) THEN Str(Leading(s)) ELSE Str("")
    /\ \A e \in JustDecided :
          TopSegment(e) \in DerivedDirs =>
             (Reported(e) <=> ~(/\ IsIdentifier(Leading(Base(e)))
                                /\ Leading(Base(e)) \in mctx.AssetIDs))

\* an identifier of the catalog at the second character of the name
C15_Witness ==
    /\ pc = "returned"
    /\ diskFiles = <<"thumbs/u/x" \o Id1 \o ".mp4">>
    /\ Id1 \in mctx.AssetIDs
    /\ untracked = diskFiles

(***************************************************************************)
(* C16: extractUUID is idempotent on valid identifiers: for every valid    *)
(* 36-character identifier u, extractUUID(u) = u, and for every string s   *)
(* with extractUUID(s) = u not empty, extractUUID(u) = u.                  *)
(***************************************************************************)
C16_ExtractIdempotent ==
    \A e \in JustDecided : \A s \in NamesOf(e) :
        /\ IsIdentifier(s) => extractUUID(s) = Str(s)
        /\ extractUUID(s).val # "" =>
              extractUUID(extractUUID(s).val) = extractUUID(s)

\* a file named by an identifier of the catalog and by nothing more
C16_Witness ==
    /\ pc = "returned"
    /\ diskFiles = <<"encoded-video/" \o Id1>>
    /\ Id1 \in mctx.AssetIDs
    /\ untracked = <<>>

\* the results of the shards 1..w, one after the other
RECURSIVE ShardResults(_)
ShardResults(w) == IF w = 0 THEN <<>> ELSE ShardResults(w - 1) \o shardOut[w]

AllShardsReturned == \A w \in Shards : shardPc[w] = "returned"

(***************************************************************************)
(* C17: the verdict of an entry depends on that entry and on the frozen    *)
(* snapshot only, never on other entries or on the order of processing:    *)
(* cutting the list into contiguous shards, running FindUntracked on each  *)
(* against the same snapshot (in any interleaving) and concatenating the   *)
(* results in shard order gives the list that one sequential FindUntracked *)
(* over the whole input gives.                                             *)
(***************************************************************************)
C17_ShardsEqualSequential ==
    /\ \A w \in Shards :
          shardOut[w] = SelectSeq(SubSeq(ShardFiles(w), 1, shardIdx[w] - 1), NotKnown)
    /\ (pc = "returned" /\ AllShardsReturned) => ShardResults(NumShards) = untracked

\* the same untracked entry in two shards, a known entry in the second
C17_Witness ==
    /\ pc = "returned"
    /\ AllShardsReturned
    /\ diskFiles = <<"foo/p.jpg", "library/p.jpg", "foo/p.jpg">>
    /\ "library/p.jpg" \in mctx.AssetPaths
    /\ cuts[1] = 1
    /\ shardOut[1] = <<"foo/p.jpg">>
    /\ untracked = <<"foo/p.jpg", "foo/p.jpg">>

(***************************************************************************)
(* What the properties of run and of the mover speak of                    *)
(***************************************************************************)

\* the fetch has returned its result to run, FindUntracked has not returned
AfterFetch ==
    \/ rpc \in {"mergeUsers", "stripAdmin", "scanAdmin", "addUser", "scanUser", "stripUser"}
    \/ rpc = "match" /\ pc = "loop"

\* FindUntracked is running in run
Matching == rpc = "match" /\ pc = "loop"

\* GET /api/admin/users answered 403
UsersRefused == usersResp.kind = "http" /\ usersResp.status = 403

\* GET /api/admin/users failed in another way: no response, an unreadable
\* body, another status than 200, or a body that is no list of users
UsersFailedOtherwise ==
    \/ usersResp.kind \in {"transport", "readBody"}
    \/ usersResp.kind = "http" /\ usersResp.status \notin {200, 403}
    \/ usersResp.kind = "http" /\ usersResp.status = 200 /\ ~usersResp.decodable

Called(name) == \E i \in 1..Len(calls) : calls[i] = name

(***************************************************************************)
(* C13: the snapshot is frozen once fetching completes: from the moment    *)
(* the fetch (FetchAllAssets or FetchAllAssetsFromDB) returns until        *)
(* FindUntracked returns, none of the three sets is added to, removed from *)
(* or replaced, and FindUntracked itself never modifies the match context. *)
(* run adds user identifiers to the owner set and replaces the path set    *)
(* by its prefix-stripped copy after the fetch has returned.               *)
(***************************************************************************)
C13_FrozenAfterFetch ==
    [][AfterFetch => (result' = result /\ (pc = "loop" => mctx' = mctx))]_vars

(***************************************************************************)
(* C13, as the code has it: from the moment run has built the match        *)
(* context (after it added the user identifiers to the owner set and       *)
(* replaced the path set by its prefix-stripped copy) until FindUntracked  *)
(* returns, none of the three sets is added to, removed from or replaced,  *)
(* the match context holds the three sets of the result, and FindUntracked *)
(* itself never modifies the match context.                                *)
(***************************************************************************)
C13_FrozenWhileMatching ==
    /\ [][Matching => (result' = result /\ mctx' = mctx)]_vars
    /\ [](rpc = "match" =>
            /\ mctx.AssetPaths = result.AssetPaths
            /\ mctx.AssetIDs = result.AssetIDs
            /\ mctx.UserIDs = result.UserIDs)

\* single-user mode, one entry matched by its stripped path, one to go
C13_Witness ==
    /\ Matching
    /\ idx = 2
    /\ diskFiles = <<"library/admin/p.jpg", "library/admin/s.jpg">>
    /\ mctx.AssetPaths = {"library/admin/p.jpg"}
    /\ mctx.UserIDs = {User1}
    /\ untracked = <<>>

(***************************************************************************)
(* C18: the choice of the mode at startup: when GET /api/admin/users       *)
(* answers 403 the client returns ErrNotAdmin, and run falls back to       *)
(* single-user mode and continues; when that call fails in any other way   *)
(* (another status than 200, a transport or decode error) the error is not *)
(* ErrNotAdmin and run aborts with an error before any asset fetch,        *)
(* filesystem scan or move.                                                *)
(***************************************************************************)
C18_ModeSelection ==
    /\ UsersRefused =>
          /\ usersErr = ErrNotAdmin
          /\ ~adminMode
          /\ runErr # "check admin status"
          /\ rpc = "returned" => Len(calls) >= 2
          /\ Len(calls) >= 2 => calls[2] = "FetchCurrentUser"
    /\ UsersFailedOtherwise =>
          /\ usersErr \notin {"nil", ErrNotAdmin}
          /\ rpc = "returned"
          /\ runErr = "check admin status"
          /\ calls = <<"FetchAllUsers">>
          /\ result = EmptyResult
          /\ diskFiles = <<>>
          /\ pc = "idle"
          /\ mvPc = "idle"
          /\ targetFiles = {}
          /\ targetDirs = {}

\* a 403, then the single-user pipeline up to the report of a stray file
C18_Witness ==
    /\ UsersRefused
    /\ rpc = "match"
    /\ pc = "returned"
    /\ calls = <<"FetchAllUsers", "FetchCurrentUser", "FetchAllAssets", "ScanFiles",
                 "FindUntracked">>
    /\ untracked = <<"library/admin/s.jpg">>

(***************************************************************************)
(* C19: with an admin API key (GET /api/admin/users succeeds) the run      *)
(* operates in admin mode: it matches against the assets of all users and  *)
(* scans all of library/, upload/, thumbs/, encoded-video/ and profile/    *)
(* under the storage root, so that a stray file in any of those five       *)
(* directories is reported untracked.                                      *)
(* ScanFiles skips thumbs/, encoded-video/ and profile/, and without       *)
(* --db-url run scans the library directory of the one user only.          *)
(***************************************************************************)
C19_AdminReportsStrays ==
    (usersErr = "nil" /\ rpc = "match" /\ pc = "returned") =>
        /\ adminMode
        /\ \A p \in libFiles :
              (TopSegment(p) \in DesignatedDirs /\ NotKnown(p)) => Reported(p)

(***************************************************************************)
(* C20: a dry run touches nothing: when --move is not given (MoveOrphans   *)
(* called with dryRun = true), for every list of untracked paths no file   *)
(* or directory is created, renamed, copied or deleted under the library   *)
(* path or under the target directory, and MoveOrphans returns nil.        *)
(***************************************************************************)
C20_DryRunTouchesNothing ==
    /\ [][dryRun => UNCHANGED <<libFiles, targetFiles, targetDirs>>]_vars
    /\ []((dryRun /\ mvPc = "returned") =>
             (moveErr = "nil" /\ mvIdx = Len(relPaths) + 1))

\* a dry run over two files, one of them with a namesake in the target
C20_Witness ==
    /\ dryRun
    /\ mvPc = "returned"
    /\ relPaths = <<"library/admin/s.jpg", "upload/u/s.jpg">>
    /\ libFiles = MovePaths
    /\ targetFiles = {OldTarget}
    /\ targetDirs = {}

(***************************************************************************)
(* C21: clean shutdown on Ctrl+C: once the context of the run is cancelled *)
(* the run stops at its next step in whatever phase it is in: no further   *)
(* page request is sent, no further directory entry is walked and no       *)
(* further file is moved, and run returns an error instead of completing   *)
(* the pipeline.                                                           *)
(* FindUntracked and MoveOrphans take no context and run does not look at  *)
(* ctx between its calls: a run cancelled after the scan matches, moves    *)
(* every untracked file and returns nil.                                   *)
(***************************************************************************)
C21_CleanShutdown ==
    [][cancelled =>
          /\ UNCHANGED <<libFiles, targetFiles, targetDirs>>
          /\ rpc' = "returned" => (rpc # "returned" => runErr' # "nil")]_vars

(***************************************************************************)
(* FetchAllAssets against a server of N pages: every page before the last  *)
(* answers 200 with the number of the next page; the last page answers 200 *)
(* with no next page or with one that is no number, or fails.              *)
(***************************************************************************)

\* the most pages of a server
MaxPages == 3

\* the items of a page
PageContents == {<<>>, <<FirstOwnerRecord>>, <<OtherOwnerRecord, NoPathRecord>>}

\* the pages that the last page can be
LastPages ==
    {r \in Responses :
        /\ r.kind = "ok" => (r.batch \in PageContents /\ r.nextPage \in {NoNextPage, "x"})}

\* the servers of n pages, from page k on: a page that another page follows
\* names that page
RECURSIVE Chains(_, _)
Chains(k, n) ==
    IF k = n THEN {<<l>> : l \in LastPages}
    ELSE {<<m>> \o t : m \in {r \in [kind : {"ok"}, batch : PageContents,
                                    count : 0..MaxItems, nextPage : {Itoa(k + 1)}] :
                                 r.count \in {0, Len(r.batch)}},
                       t \in Chains(k + 1, n)}

PagedServers == UNION {Chains(1, n) : n \in 1..MaxPages}

InitPaged ==
    /\ fpc = "idle"
    /\ page = 1
    /\ result = EmptyResult
    /\ items = NoItems
    /\ rowCount = 0
    /\ cancelled = FALSE
    /\ fetchErr = "nil"
    /\ seen = {}
    /\ ret = NilResult
    /\ server \in PagedServers
    /\ requests = <<>>
    /\ MatcherIdle
    /\ ShardsIdle
    /\ RunIdle
    /\ MoverIdle

NextPaged ==
    \/ FetchAllAssets
    \/ FetchPage
    \/ Cancel

\* FetchAllAssets is called, and the loop of fetchAssetsPage goes on until
\* it returns
SpecPaged ==
    InitPaged /\ [][NextPaged]_vars /\ WF_vars(FetchAllAssets) /\ WF_vars(FetchPage)

\* the server of the specification has N pages; page k < N answers 200 with
\* nextPage = k+1 and page N answers 200 with a null nextPage
WellPaged ==
    /\ \A k \in 1..(Len(server) - 1) :
          server[k].kind = "ok" /\ server[k].nextPage = Itoa(k + 1)
    /\ server[Len(server)].kind = "ok"
    /\ server[Len(server)].nextPage = NoNextPage

\* every page before the last reports a count that is not zero
CountsGiven == \A k \in 1..(Len(server) - 1) : server[k].count # 0

\* the three sets of the items of the first n pages
PagesUpTo(n) ==
    [AssetPaths |-> UNION {PathsOf(server[k].batch) : k \in 1..n},
     AssetIDs   |-> UNION {IdsOf(server[k].batch) : k \in 1..n},
     UserIDs    |-> UNION {OwnersOf(server[k].batch) : k \in 1..n}]

\* pages 1..N requested in order, once each, and the union of their items
\* returned
FetchedAllPages ==
    /\ fetchErr = "nil"
    /\ requests = [k \in 1..Len(server) |-> k]
    /\ ret = [nil |-> FALSE, val |-> PagesUpTo(Len(server))]

(***************************************************************************)
(* C22: pagination is complete and minimal: against a server with N >= 1   *)
(* pages where page k < N answers 200 with nextPage = k+1 and page N        *)
(* answers with a null nextPage, FetchAllAssets requests pages 1..N in      *)
(* order, exactly once each, then terminates and returns sets equal to the  *)
(* union of the items of all N pages.                                       *)
(* A page that reports count = 0 ends the loop whatever its nextPage.       *)
(***************************************************************************)
C22_PaginationComplete ==
    /\ [](WellPaged =>
            /\ \A i \in DOMAIN requests : requests[i] = i
            /\ (fpc = "returned" /\ ~cancelled) => FetchedAllPages)
    /\ (WellPaged => <>(fpc = "returned"))

(***************************************************************************)
(* C22, as the code has it: against such a server whose pages before the   *)
(* last each report a count that is not zero, FetchAllAssets (when the     *)
(* context is not cancelled) requests pages 1..N in order, exactly once     *)
(* each, then terminates and returns sets equal to the union of the items   *)
(* of all N pages.                                                          *)
(***************************************************************************)
C22_PaginationWithCounts ==
    /\ []((WellPaged /\ CountsGiven) =>
            /\ \A i \in DOMAIN requests : requests[i] = i
            /\ (fpc = "returned" /\ ~cancelled) => FetchedAllPages)
    /\ ((WellPaged /\ CountsGiven) => <>(fpc = "returned"))

\* three pages fetched, each with items, the third with the null nextPage
C22_Witness ==
    /\ WellPaged
    /\ CountsGiven
    /\ Len(server) = MaxPages
    /\ server[1].batch = <<FirstOwnerRecord>>
    /\ server[2].batch = <<OtherOwnerRecord, NoPathRecord>>
    /\ fpc = "returned"
    /\ requests = [k \in 1..MaxPages |-> k]
    /\ ret.val.AssetIDs = {Id1, Id3}
    /\ ret.val.UserIDs = {User1, User2}

\* the answer to the last request
LastAnswer == server[requests[Len(requests)]]

\* a nextPage that is no number
Unparsable(r) == r.nextPage # NoNextPage /\ Atoi(r.nextPage).err

(***************************************************************************)
(* C23: a failed fetch never yields a partial snapshot: if any page         *)
(* request fails (non-200 status, transport error, undecodable body or      *)
(* unparsable nextPage) or the context is cancelled, on the first page or   *)
(* on any later page, FetchAllAssets returns a non-nil error together with  *)
(* a nil result, discarding what earlier pages contributed.                 *)
(* The nextPage of a page that reports count = 0 is not parsed.             *)
(***************************************************************************)
C23_FailureDiscardsAll ==
    fpc = "returned" =>
        /\ cancelled => fetchErr # "nil"
        /\ (requests # <<>> /\ (LastAnswer.kind # "ok" \/ Unparsable(LastAnswer)))
              => fetchErr # "nil"
        /\ fetchErr # "nil" => ret = NilResult

(***************************************************************************)
(* C23, as the code has it: if a page request fails (non-200 status,        *)
(* transport error, unreadable or undecodable body, or an unparsable        *)
(* nextPage on a page that reports a count other than zero) or the context  *)
(* is cancelled, on the first page or on any later page, FetchAllAssets     *)
(* returns a non-nil error together with a nil result, discarding what      *)
(* earlier pages contributed; otherwise it returns the result and nil.      *)
(***************************************************************************)
C23_DetectedFailureDiscardsAll ==
    fpc = "returned" =>
        /\ cancelled => fetchErr # "nil"
        /\ (requests # <<>> /\ (\/ LastAnswer.kind # "ok"
                                \/ Unparsable(LastAnswer) /\ LastAnswer.count # 0))
              => fetchErr # "nil"
        /\ fetchErr # "nil" => ret = NilResult
        /\ fetchErr = "nil" => ret = [nil |-> FALSE, val |-> result]

\* the second page answers with another status than 200 after the first
\* page gave its items
C23_Witness ==
    /\ fpc = "returned"
    /\ requests = <<1, 2>>
    /\ LastAnswer.kind = "status"
    /\ fetchErr = "status"
    /\ result.AssetIDs = {Id1}
    /\ ret = NilResult

(***************************************************************************)
(* What the properties of the scan speak of                                *)
(***************************************************************************)

\* run scans the library directory of the one user
SingleUser == ~(adminMode /\ dbURL # "") /\ user.StorageLabel # ""

\* the directory given to ScanFiles, as a prefix of the paths below it
ScanRoot == IF SingleUser THEN "library/" \o user.StorageLabel \o "/" ELSE ""

\* ScanFiles has returned its list to run and no file has been moved yet
Scanned == rpc \in {"stripUser", "match"}

\* the list that ScanFiles returned
RawFiles == [i \in 1..Len(diskFiles) |-> TrimPrefix(diskFiles[i], ScanRoot)]

\* the regular files under the root, as paths relative to it
UnderRoot == {TrimPrefix(f, ScanRoot) : f \in {g \in libFiles : HasPrefix(g, ScanRoot)}}

\* the names of the directories that Immich keeps for itself
InternalNames == {"thumbs", "encoded-video", "backups", "profile"}

\* a path with more than one segment
HasDirectory(rel) == SlashPositions(rel) # {}

TargetAt(relPath) == {f \in targetFiles : f.path = relPath}

\* the file of the library at relPath, with its content, as a file of the
\* target directory
Moved(relPath) == [path |-> relPath, content |-> relPath]

(***************************************************************************)
(* C25: a successful real move preserves directory structure and content:  *)
(* after MoveOrphans(relPaths, libraryPath, targetDir, dryRun=false)       *)
(* returns nil, for every listed relPath the file is present at            *)
(* targetDir/relPath with the content it had at libraryPath/relPath, and   *)
(* is no longer present at libraryPath/relPath, whether the move went      *)
(* through rename or through the copy+delete fallback.                     *)
(***************************************************************************)
C25_MovePreserves ==
    (mvPc = "returned" /\ ~dryRun /\ moveErr = "nil") =>
        \A i \in 1..Len(relPaths) :
            /\ TargetAt(relPaths[i]) = {Moved(relPaths[i])}
            /\ DirsOf(relPaths[i]) \subseteq targetDirs
            /\ relPaths[i] \notin libFiles

\* two files of two directories moved, none left in the library
C25_Witness ==
    /\ mvPc = "returned"
    /\ ~dryRun
    /\ moveErr = "nil"
    /\ relPaths = <<"library/admin/s.jpg", "upload/u/s.jpg">>
    /\ libFiles = {}
    /\ targetFiles = {Moved("library/admin/s.jpg"), Moved("upload/u/s.jpg")}
    /\ targetDirs = {"library", "library/admin", "upload", "upload/u"}

(***************************************************************************)
(* C26: path translation makes tracked files match: in single-user mode a  *)
(* disk file found at library/{storageLabel}/r whose catalog originalPath  *)
(* is pathPrefix + "library/{storageLabel}/r" is never reported untracked, *)
(* because the prefix is stripped from the catalog paths and               *)
(* "library/{storageLabel}/" is prepended to the scanned paths before      *)
(* matching.                                                               *)
(* In the model: when run strips the prefix, every scanned file (a path    *)
(* that begins with library/{storageLabel}/) that the fetched catalog      *)
(* names under the prefix enters the path set of the match context; and a  *)
(* scanned file that this path set holds is never in the untracked list.   *)
(***************************************************************************)
C26_TranslatedPathsMatch ==
    /\ [][(rpc = "stripUser" /\ rpc' = "match") =>
            \A i \in 1..Len(diskFiles) :
                /\ HasPrefix(diskFiles[i], ScanRoot)
                /\ diskFiles[i] \in libFiles
                /\ (PathPrefix \o diskFiles[i]) \in result.AssetPaths
                       => diskFiles[i] \in mctx'.AssetPaths]_vars
    /\ []((SingleUser /\ rpc \in {"match", "move", "returned"}) =>
             \A i \in 1..Len(diskFiles) :
                 diskFiles[i] \in mctx.AssetPaths => ~Reported(diskFiles[i]))

\* of two files of the user's library the catalog names one under /data/:
\* the other alone is reported
C26_Witness ==
    /\ SingleUser
    /\ rpc = "match"
    /\ pc = "returned"
    /\ diskFiles = <<"library/admin/p.jpg", "library/admin/s.jpg">>
    /\ mctx.AssetPaths = {"library/admin/p.jpg", "upload/u/q.jpg"}
    /\ untracked = <<"library/admin/s.jpg">>

\* the errors with which run gives up before the match
PipelineFailures ==
    {"check admin status", "fetch current user", "no storage label", "fetch assets",
     "fetch assets from database", "scan filesystem"}

(***************************************************************************)
(* C27: files are moved only after a complete catalog fetch and a complete *)
(* scan: on every execution of run in which the admin check fails with a   *)
(* non-403 error, the current-user lookup fails or returns an empty        *)
(* storage label, the asset fetch (API or database) fails, or the          *)
(* filesystem scan fails, run returns an error and MoveOrphans is never    *)
(* invoked.                                                                *)
(***************************************************************************)
C27_MoveOnlyAfterFetchAndScan ==
    /\ UsersFailedOtherwise => runErr = "check admin status"
    /\ runErr \in PipelineFailures =>
          /\ rpc = "returned"
          /\ ~Called("MoveOrphans")
          /\ ~Called("FindUntracked")
          /\ mvPc = "idle"
          /\ targetFiles = {}
          /\ targetDirs = {}
    /\ Called("MoveOrphans") =>
          /\ Called("FetchAllAssets") \/ Called("FetchAllAssetsFromDB")
          /\ Called("ScanFiles")
          /\ Called("FindUntracked")
          /\ pc = "returned"

\* a run with --move whose scan of a library that holds a stray file fails
C27_Witness ==
    /\ rpc = "returned"
    /\ runErr = "scan filesystem"
    /\ doMove
    /\ calls = <<"FetchAllUsers", "FetchCurrentUser", "FetchAllAssets", "ScanFiles">>
    /\ libFiles = {"library/admin/s.jpg"}
    /\ mvPc = "idle"

(***************************************************************************)
(* C28: moveFile never loses a file: in every reachable state of a move    *)
(* (rename success, rename failure followed by a copy that fails at open,  *)
(* create, write or close, or a copy that succeeds followed by a failing   *)
(* delete) the complete content of the file exists at the source or at the *)
(* destination; the source is removed only after the rename succeeded or   *)
(* the copy, including closing the destination, completed without error.   *)
(***************************************************************************)
C28_NeverLosesFile ==
    /\ []((mfPc # "idle" /\ srcWas.exists) => (srcFile = srcWas \/ dstFile = srcWas))
    /\ [][(srcFile.exists /\ ~srcFile'.exists) =>
            \/ mfPc = "rename" /\ dstFile' = srcWas /\ mfErr' = "nil"
            \/ mfPc = "remove" /\ dstFile = srcWas /\ dstFile' = srcWas /\ mfErr' = "nil"]_vars
    /\ []((mfPc = "returned" /\ mfErr # "nil") => srcFile = srcWas)

\* the rename failed and the copy broke off after the first byte: the
\* destination is incomplete and the source is whole
C28_Witness ==
    /\ mfPc = "returned"
    /\ mfErr = "copy data"
    /\ srcWas = File(SubSeq(Digits, 1, MaxData))
    /\ srcFile = srcWas
    /\ dstFile = File(SubSeq(Digits, 1, 1))

\* the files of the target directory that a step has written or replaced
TargetChanges(before, after) == (before \ after) \cup (after \ before)

(***************************************************************************)
(* C29: MoveOrphans processes entries strictly in list order and stops at  *)
(* the first entry whose move fails, returning that error: entries before  *)
(* it stay moved (no rollback), entries after it are left untouched at     *)
(* their source, and in particular a list containing the same relative     *)
(* path twice fails at the second occurrence after the first was moved.    *)
(***************************************************************************)
C29_StopsAtFirstFailure ==
    /\ [][(mvPc = "loop" /\ mvIdx <= Len(relPaths)) =>
            /\ libFiles' \subseteq libFiles
            /\ libFiles \ libFiles' \subseteq {relPaths[mvIdx]}
            /\ \A f \in TargetChanges(targetFiles, targetFiles') : f.path = relPaths[mvIdx]
            /\ \/ mvIdx' = mvIdx + 1 /\ mvPc' = "loop" /\ moveErr' = "nil"
               \/ mvIdx' = mvIdx /\ mvPc' = "returned" /\ moveErr' # "nil"]_vars
    /\ []((mvPc = "returned" /\ ~dryRun) =>
             /\ moveErr # "nil" <=> mvIdx <= Len(relPaths)
             /\ \A i \in 1..(mvIdx - 1) :
                   TargetAt(relPaths[i]) = {Moved(relPaths[i])} /\ relPaths[i] \notin libFiles
             /\ \A i, j \in 1..Len(relPaths) :
                   (i < j /\ relPaths[i] = relPaths[j]) => (moveErr # "nil" /\ mvIdx <= j))

\* the same path twice: the first occurrence moved, the second failed, and
\* the file stays in the target directory
C29_Witness ==
    /\ ~dryRun
    /\ mvPc = "returned"
    /\ relPaths = <<"upload/u/s.jpg", "upload/u/s.jpg">>
    /\ mvIdx = 2
    /\ moveErr = "open"
    /\ libFiles = {"library/admin/s.jpg"}
    /\ targetFiles = {OldTarget, Moved("upload/u/s.jpg")}

(***************************************************************************)
(* C30: single-user completeness: in single-user mode every regular file   *)
(* located anywhere under library/{storageLabel}/ whose relative path is   *)
(* not in the prefix-stripped catalog path set is reported untracked,      *)
(* including files inside a sub-directory of the user's library that is    *)
(* named thumbs, encoded-video, backups or profile.                        *)
(* ScanFiles tests the four names against the first segment below the      *)
(* directory it is given, here library/{storageLabel}/, and skips such a   *)
(* sub-directory of the user's library.                                    *)
(***************************************************************************)
C30_SingleUserComplete ==
    (SingleUser /\ rpc = "match" /\ pc = "returned") =>
        \A f \in libFiles :
            (HasPrefix(f, ScanRoot) /\ f \notin mctx.AssetPaths) => Reported(f)

====
